---------------------------- MODULE Spec2Model ----------------------------
(***************************************************************************)
(* Model of the task / record lifecycle code of agentcore-test:            *)
(*   agents/tools/duplicate_detector.py  (similarity, detect, merge)       *)
(*   agents/tools/task_approval_flow.py  (task batch approval flow)        *)
(*   agents/tools/approval.py            (minutes approval flow)           *)
(*   agents/tools/task_models.py, agents/models/approval.py (data model)   *)
(*                                                                         *)
(* Text is a sequence of one-character strings, so that str.strip(),       *)
(* str.lower(), len() and the edit distance are computed, not assumed.     *)
(* Optional[T] is <<>> for None and <<v>> for a value v.                   *)
(***************************************************************************)
EXTENDS Integers, Sequences, FiniteSets, TLC

VARIABLES
    now,        \* datetime.now(), in hours
    next_id,    \* number of Task ids handed out so far (uuid4 is fresh)
    batch,      \* session -> Optional[TaskList]: the TaskList the caller holds
    table,      \* session -> Optional[row]: task flow's DynamoDB table
    mtable,     \* session -> Optional[row]: minutes flow's DynamoDB table
    memory,     \* AgentCore Memory blob events; the eventId is the index
    stm,        \* AgentCore Memory conversation events (create_event)
    last,       \* outcome of the last call: what it returned or raised
    raw_tasks,  \* input list of merge_duplicates
    result,     \* list returned by merge_duplicates
    pairs,      \* list returned by detect_duplicates
    phase,      \* "build" | "merged" | "remerged"
    doc,        \* the TaskList or Minutes handed to to_markdown
    markdown,   \* the text to_markdown returned, possibly edited since
    restored,   \* Optional: what from_markdown returned or raised
    codec,      \* "build", "text", or how the text was edited since
    candidates, \* the tasks of the TaskList handed to Task_Validator
    validation, \* Optional: the validator call made and what it returned or raised
    extraction, \* Optional: the extract_tasks call made and what it returned or raised
    retried,    \* Optional: the call of a with_retry wrapper made and what came of it
    compared    \* two titles and, once computed, what the two scorers return

vars == <<now, next_id, batch, table, mtable, memory, stm, last,
          raw_tasks, result, pairs, phase,
          doc, markdown, restored, codec,
          candidates, validation, extraction, retried, compared>>

lifecycle_vars == <<now, next_id, batch, table, mtable, memory, stm, last>>
merge_vars == <<raw_tasks, result, pairs, phase>>
codec_vars == <<doc, markdown, restored, codec>>
validate_vars == <<candidates, validation>>
extract_vars == <<extraction, retried>>
similarity_vars == <<compared>>

\* what the operations of one component leave alone
outside_lifecycle ==
    <<merge_vars, codec_vars, validate_vars, extract_vars, similarity_vars>>
outside_merge ==
    <<lifecycle_vars, codec_vars, validate_vars, extract_vars, similarity_vars>>
outside_codec ==
    <<lifecycle_vars, merge_vars, validate_vars, extract_vars, similarity_vars>>
outside_validate ==
    <<lifecycle_vars, merge_vars, codec_vars, extract_vars, similarity_vars>>
outside_extract ==
    <<lifecycle_vars, merge_vars, codec_vars, validate_vars, similarity_vars>>
outside_similarity ==
    <<lifecycle_vars, merge_vars, codec_vars, validate_vars, extract_vars>>

-----------------------------------------------------------------------------
(* Bounds of the model *)

MaxTime == 48
TickHours == 24
MaxBatch == 2
MaxIds == 3
MaxBlobs == 2
MaxEvents == 1
MaxTasks == 3

-----------------------------------------------------------------------------
(* Optional values and Python truthiness *)

None == <<>>
Some(v) == <<v>>
IsSome(o) == o # <<>>
Get(o) == o[1]

\* `if x:` for an Optional[str]: None and "" are both falsy
Truthy(o) == IsSome(o) /\ Get(o) # <<>>

Max2(a, b) == IF a >= b THEN a ELSE b
Min3(a, b, c) == IF a <= b /\ a <= c THEN a ELSE IF b <= c THEN b ELSE c

-----------------------------------------------------------------------------
(* str.lower() and str.strip() *)

LowerChar(c) ==
    CASE c = "A" -> "a"
      [] c = "B" -> "b"
      [] OTHER -> c

Lower(s) == [i \in 1..Len(s) |-> LowerChar(s[i])]

IsSpace(c) == c \in {" ", "\n"}

RECURSIVE LStrip(_)
LStrip(s) ==
    IF s = <<>> THEN <<>>
    ELSE IF IsSpace(Head(s)) THEN LStrip(Tail(s)) ELSE s

RECURSIVE RStrip(_)
RStrip(s) ==
    IF s = <<>> THEN <<>>
    ELSE IF IsSpace(s[Len(s)]) THEN RStrip(SubSeq(s, 1, Len(s) - 1)) ELSE s

Strip(s) == RStrip(LStrip(s))

-----------------------------------------------------------------------------
(* DuplicateDetector: similarity of two titles *)

\* one row of the dynamic programme: the inner loop over s2 (j is 0-based)
RECURSIVE LevRow(_, _, _, _, _)
LevRow(previous_row, current_row, c1, s2, j) ==
    IF j >= Len(s2) THEN current_row
    ELSE LET insertions == previous_row[j + 2] + 1
             deletions == current_row[j + 1] + 1
             substitutions == previous_row[j + 1] + (IF c1 # s2[j + 1] THEN 1 ELSE 0)
         IN  LevRow(previous_row,
                    Append(current_row, Min3(insertions, deletions, substitutions)),
                    c1, s2, j + 1)

\* the outer loop over s1 (i is 0-based)
RECURSIVE LevRows(_, _, _, _)
LevRows(s1, s2, i, previous_row) ==
    IF i >= Len(s1) THEN previous_row
    ELSE LevRows(s1, s2, i + 1, LevRow(previous_row, <<i + 1>>, s1[i + 1], s2, 0))

RECURSIVE _levenshtein_distance(_, _)
_levenshtein_distance(s1, s2) ==
    IF Len(s1) < Len(s2) THEN _levenshtein_distance(s2, s1)
    ELSE IF Len(s2) = 0 THEN Len(s1)
    ELSE LET last_row == LevRows(s1, s2, 0, [k \in 1..(Len(s2) + 1) |-> k - 1])
         IN  last_row[Len(last_row)]

\* A similarity is the exact fraction num/den of the float the code returns.
Ratio(n, d) == [num |-> n, den |-> d]
AtLeast(x, y) == x.num * y.den >= y.num * x.den

\* SIMILARITY_THRESHOLD = 0.8
SIMILARITY_THRESHOLD == Ratio(8, 10)

\* mutant: a title is taken for empty when nothing is left after strip()
SimilarityBlankIsEmpty(title1, title2) ==
    IF Strip(title1) = <<>> \/ Strip(title2) = <<>> THEN Ratio(0, 1)
    ELSE LET t1 == Lower(Strip(title1))
             t2 == Lower(Strip(title2))
         IN  IF t1 = t2 THEN Ratio(1, 1)
             ELSE LET distance == _levenshtein_distance(t1, t2)
                      max_len == Max2(Len(t1), Len(t2))
                  IN  IF max_len = 0 THEN Ratio(1, 1)
                      ELSE Ratio(Max2(0, max_len - distance), max_len)

calculate_similarity(title1, title2) ==
    IF title1 = <<>> \/ title2 = <<>> THEN Ratio(0, 1)
    ELSE LET t1 == Lower(Strip(title1))
             t2 == Lower(Strip(title2))
         IN  IF t1 = t2 THEN Ratio(1, 1)
             ELSE LET distance == _levenshtein_distance(t1, t2)
                      max_len == Max2(Len(t1), Len(t2))
                  IN  IF max_len = 0 THEN Ratio(1, 1)
                      ELSE Ratio(Max2(0, max_len - distance), max_len)

-----------------------------------------------------------------------------
(* DuplicateDetector.detect_duplicates: pairs <<i, j>>, i kept, j merged.
   Indices are 1-based here, 0-based in the code. *)

\* mutant: a merged index is not marked as processed
RECURSIVE DetectInnerNoMark(_, _, _, _, _)
DetectInnerNoMark(tasks, i, j, duplicates, processed) ==
    IF j > Len(tasks) THEN [duplicates |-> duplicates, processed |-> processed]
    ELSE IF j \in processed
         THEN DetectInnerNoMark(tasks, i, j + 1, duplicates, processed)
    ELSE IF AtLeast(calculate_similarity(tasks[i].title, tasks[j].title),
                    SIMILARITY_THRESHOLD)
         THEN DetectInnerNoMark(tasks, i, j + 1, Append(duplicates, <<i, j>>),
                                processed)
         ELSE DetectInnerNoMark(tasks, i, j + 1, duplicates, processed)

RECURSIVE DetectInner(_, _, _, _, _)
DetectInner(tasks, i, j, duplicates, processed) ==
    IF j > Len(tasks) THEN [duplicates |-> duplicates, processed |-> processed]
    ELSE IF j \in processed THEN DetectInner(tasks, i, j + 1, duplicates, processed)
    ELSE IF AtLeast(calculate_similarity(tasks[i].title, tasks[j].title),
                    SIMILARITY_THRESHOLD)
         THEN DetectInner(tasks, i, j + 1, Append(duplicates, <<i, j>>),
                          processed \cup {j})
         ELSE DetectInner(tasks, i, j + 1, duplicates, processed)

RECURSIVE DetectOuter(_, _, _, _)
DetectOuter(tasks, i, duplicates, processed) ==
    IF i > Len(tasks) THEN duplicates
    ELSE IF i \in processed THEN DetectOuter(tasks, i + 1, duplicates, processed)
    ELSE LET r == DetectInner(tasks, i, i + 1, duplicates, processed)
         IN  DetectOuter(tasks, i + 1, r.duplicates, r.processed)

detect_duplicates(tasks) == DetectOuter(tasks, 1, <<>>, {})

-----------------------------------------------------------------------------
(* DuplicateDetector._merge_task_details *)

\* priority_order = {"high": 3, "medium": 2, "low": 1}
priority_order(p) ==
    CASE p = "high" -> 3
      [] p = "medium" -> 2
      [] p = "low" -> 1
      [] OTHER -> 0

\* Python's max(seq, key=...): the first element with the largest key
RECURSIVE MaxByDescription(_, _, _)
MaxByDescription(all_tasks, k, best) ==
    IF k > Len(all_tasks) THEN best
    ELSE MaxByDescription(all_tasks, k + 1,
             IF Len(all_tasks[k].description) > Len(best.description)
             THEN all_tasks[k] ELSE best)

RECURSIVE MaxByPriority(_, _, _)
MaxByPriority(all_tasks, k, best) ==
    IF k > Len(all_tasks) THEN best
    ELSE MaxByPriority(all_tasks, k + 1,
             IF priority_order(all_tasks[k].priority) > priority_order(best.priority)
             THEN all_tasks[k] ELSE best)

\* for task in all_tasks: if task.assignee: merged.assignee = ...; break
RECURSIVE FirstAssignee(_, _, _)
FirstAssignee(all_tasks, k, dflt) ==
    IF k > Len(all_tasks) THEN dflt
    ELSE IF Truthy(all_tasks[k].assignee) THEN all_tasks[k].assignee
    ELSE FirstAssignee(all_tasks, k + 1, dflt)

\* dates = [t.due_date for t in all_tasks if t.due_date]; min(dates)
DueDates(all_tasks) ==
    {Get(all_tasks[k].due_date) : k \in {m \in 1..Len(all_tasks) : IsSome(all_tasks[m].due_date)}}

MinOf(S) == CHOOSE x \in S : \A y \in S : x <= y

\* the loop over quotes: strip, skip empty and already seen ones
RECURSIVE CollectQuotes(_, _, _)
CollectQuotes(all_tasks, k, quotes) ==
    IF k > Len(all_tasks) THEN quotes
    ELSE LET quote == Strip(all_tasks[k].source_quote)
             seen == {quotes[m] : m \in 1..Len(quotes)}
         IN  CollectQuotes(all_tasks, k + 1,
                 IF quote # <<>> /\ quote \notin seen THEN Append(quotes, quote)
                 ELSE quotes)

\* "\n---\n"
QuoteDelimiter == <<"\n", "-", "-", "-", "\n">>

\* str.join
RECURSIVE Join(_, _)
Join(sep, parts) ==
    IF parts = <<>> THEN <<>>
    ELSE IF Len(parts) = 1 THEN parts[1]
    ELSE parts[1] \o sep \o Join(sep, Tail(parts))

\* mutant: max(dates) where the code takes min(dates)
MergeDetailsLatestDue(primary, others) ==
    LET all_tasks == <<primary>> \o others
        most_detailed == MaxByDescription(all_tasks, 2, all_tasks[1])
        assignee == FirstAssignee(all_tasks, 1, most_detailed.assignee)
        dates == DueDates(all_tasks)
        highest_priority == MaxByPriority(all_tasks, 2, all_tasks[1])
        quotes == CollectQuotes(all_tasks, 1, <<>>)
    IN  [most_detailed EXCEPT
            !.assignee = assignee,
            !.due_date = IF dates # {}
                         THEN Some(CHOOSE x \in dates : \A y \in dates : x >= y)
                         ELSE @,
            !.priority = highest_priority.priority,
            !.source_quote = Join(QuoteDelimiter, quotes)]

_merge_task_details(primary, others) ==
    LET all_tasks == <<primary>> \o others
        most_detailed == MaxByDescription(all_tasks, 2, all_tasks[1])
        assignee == FirstAssignee(all_tasks, 1, most_detailed.assignee)
        dates == DueDates(all_tasks)
        highest_priority == MaxByPriority(all_tasks, 2, all_tasks[1])
        quotes == CollectQuotes(all_tasks, 1, <<>>)
    IN  [most_detailed EXCEPT
            !.assignee = assignee,
            !.due_date = IF dates # {} THEN Some(MinOf(dates)) ELSE @,
            !.priority = highest_priority.priority,
            !.source_quote = Join(QuoteDelimiter, quotes)]

-----------------------------------------------------------------------------
(* DuplicateDetector.merge_duplicates *)

\* merge_map[keep_idx]: the merged indices, in the order of `duplicates`
MergedInto(duplicates, keep_idx) ==
    LET P(d) == d[1] = keep_idx
        mine == SelectSeq(duplicates, P)
    IN  [k \in 1..Len(mine) |-> mine[k][2]]

\* mutant: a task merged into another one is also kept on its own
RECURSIVE BuildMergedKeepsMerged(_, _, _, _)
BuildMergedKeepsMerged(tasks, duplicates, i, acc) ==
    IF i > Len(tasks) THEN acc
    ELSE LET mine == MergedInto(duplicates, i)
         IN  IF mine # <<>>
             THEN BuildMergedKeepsMerged(tasks, duplicates, i + 1,
                      Append(acc, _merge_task_details(tasks[i],
                                     [k \in 1..Len(mine) |-> tasks[mine[k]]])))
             ELSE BuildMergedKeepsMerged(tasks, duplicates, i + 1,
                                         Append(acc, tasks[i]))

RECURSIVE BuildMerged(_, _, _, _)
BuildMerged(tasks, duplicates, i, acc) ==
    IF i > Len(tasks) THEN acc
    ELSE LET merged_indices == {duplicates[k][2] : k \in 1..Len(duplicates)}
             mine == MergedInto(duplicates, i)
         IN  IF i \in merged_indices THEN BuildMerged(tasks, duplicates, i + 1, acc)
             ELSE IF mine # <<>>
                  THEN BuildMerged(tasks, duplicates, i + 1,
                           Append(acc, _merge_task_details(tasks[i],
                                          [k \in 1..Len(mine) |-> tasks[mine[k]]])))
                  ELSE BuildMerged(tasks, duplicates, i + 1, Append(acc, tasks[i]))

merge_duplicates(tasks) ==
    IF tasks = <<>> THEN <<>>
    ELSE LET duplicates == detect_duplicates(tasks)
         IN  IF duplicates = <<>> THEN tasks
             ELSE BuildMerged(tasks, duplicates, 1, <<>>)

-----------------------------------------------------------------------------
(* Task (task_models.py).  created_at is left out: no operation modelled
   here reads it. *)

Task(id, title, description, assignee, due_date, priority, source_quote) ==
    [id |-> id, title |-> title, description |-> description,
     assignee |-> assignee, due_date |-> due_date, priority |-> priority,
     source_quote |-> source_quote]

Priority == {"high", "medium", "low"}

\* "aaaaa", "aaaab", "aaabb" and " Aaaaa": each next title is one edit away
\* from the one before, the last one normalizes to the first
Titles ==
    { <<"a", "a", "a", "a", "a">>,
      <<"a", "a", "a", "a", "b">>,
      <<"a", "a", "a", "b", "b">>,
      <<" ", "A", "a", "a", "a", "a">> }

\* what the model's answer can carry besides the title
Details ==
    { [description |-> <<"d">>, assignee |-> None, due_date |-> None,
       priority |-> "low", source_quote |-> <<"q">>],
      [description |-> <<"d", "d", "d">>, assignee |-> Some(<<>>), due_date |-> Some(2),
       priority |-> "medium", source_quote |-> <<" ", "q">>],
      [description |-> <<"e", "e", "e">>, assignee |-> Some(<<"D">>), due_date |-> Some(1),
       priority |-> "high", source_quote |-> <<"r">>],
      [description |-> <<"d", "d">>, assignee |-> Some(<<"E">>), due_date |-> None,
       priority |-> "medium", source_quote |-> <<" ">>] }

NewTask(id, title, d) ==
    Task(id, title, d.description, d.assignee, d.due_date, d.priority, d.source_quote)

-----------------------------------------------------------------------------
(* Initial values *)

Sessions == {"s1", "s2"}

InitLifecycle ==
    /\ now = 0
    /\ next_id = 0
    /\ batch = [s \in Sessions |-> None]
    /\ table = [s \in Sessions |-> None]
    /\ mtable = [s \in Sessions |-> None]
    /\ memory = <<>>
    /\ stm = <<>>
    /\ last = [op |-> "none", session |-> "", err |-> "", ret |-> None]

InitMergeVars ==
    /\ raw_tasks = <<>>
    /\ result = <<>>
    /\ pairs = <<>>
    /\ phase = "build"

InitCodecVars ==
    /\ doc = None
    /\ markdown = <<>>
    /\ restored = None
    /\ codec = "build"

InitValidateVars ==
    /\ candidates = <<>>
    /\ validation = None

InitExtractVars ==
    /\ extraction = None
    /\ retried = None

InitSimilarityVars ==
    compared = [title1 |-> <<>>, title2 |-> <<>>, similarity |-> None,
                issue_similarity |-> None]

Init ==
    /\ InitLifecycle
    /\ InitMergeVars
    /\ InitCodecVars
    /\ InitValidateVars
    /\ InitExtractVars
    /\ InitSimilarityVars

-----------------------------------------------------------------------------
(* Data model of the approval flows *)

TaskListStatus == {"pending", "approved", "revision_requested", "cancelled"}
ApprovalStatus == {"pending", "approved", "revision_requested", "expired"}

TaskList(session_id, minutes_id, tasks, status, created_at, updated_at) ==
    [session_id |-> session_id, minutes_id |-> minutes_id, tasks |-> tasks,
     status |-> status, created_at |-> created_at, updated_at |-> updated_at]

\* timedelta(hours=24)
EXPIRY_HOURS == 24

\* the action ids a Slack interaction can carry; the last one is no action
\* of either flow
ActionIds ==
    {"approve_tasks", "request_task_revision", "cancel_tasks",
     "approve_minutes", "request_revision", "frobnicate"}

\* no user id, or the Slack user "U"
UserIds == {None, Some(<<"U">>)}

\* what a call returned (ret) or raised (err, "" when it returned)
Returned(op, s, ret) == [op |-> op, session |-> s, err |-> "", ret |-> Some(ret)]
Raised(op, s, err) == [op |-> op, session |-> s, err |-> err, ret |-> None]

\* pydantic's model_dump_json and model_validate_json
model_dump_json(v) == [json |-> v]
model_validate_json(c) == c.json

-----------------------------------------------------------------------------
(* save_conversation_to_stm: the event is stored unless there is no memory
   client or create_event raises; either way the caller goes on. *)

\* mutant: a stored message is written to the log twice
SaveConversationTwice(session_id, actor_id, role, message, stored) ==
    LET event == [session_id |-> session_id, actor_id |-> actor_id,
                  role |-> role, content |-> message]
    IN  IF stored THEN stm' = stm \o <<event, event>> ELSE stm' = stm

save_conversation_to_stm(session_id, actor_id, role, message, stored) ==
    IF stored
    THEN stm' = Append(stm, [session_id |-> session_id, actor_id |-> actor_id,
                             role |-> role, content |-> message])
    ELSE stm' = stm

CanStore(stored) == stored => Len(stm) < MaxEvents

-----------------------------------------------------------------------------
(* The clock, and the caller constructing a TaskList *)

Tick ==
    /\ now < MaxTime
    /\ now' = now + TickHours
    /\ UNCHANGED <<next_id, batch, table, mtable, memory, stm, last>>
    /\ UNCHANGED outside_lifecycle

\* n new tasks with the ids next_id + 1 .. next_id + n
FreshTasks(n, title, d) == [k \in 1..n |-> NewTask(next_id + k, title, d)]

NewTaskList(s, status, n, title, d) ==
    /\ batch[s] = None
    /\ next_id + n <= MaxIds
    /\ batch' = [batch EXCEPT ![s] =
                    Some(TaskList(s, "minutes-1", FreshTasks(n, title, d), status, now, now))]
    /\ next_id' = next_id + n
    /\ UNCHANGED <<now, table, mtable, memory, stm, last>>
    /\ UNCHANGED outside_lifecycle

-----------------------------------------------------------------------------
(* TaskApprovalFlow.handle_action and ApprovalFlow.handle_action *)

\* mutant: the cancel branch returns the status of the approve branch
TaskActionResultCancelApproves(action_id, user_id) ==
    CASE action_id = "approve_tasks" ->
            [status |-> "approved", updated_at |-> now, user_id |-> user_id]
      [] action_id = "request_task_revision" ->
            [status |-> "revision_requested", updated_at |-> now, user_id |-> user_id]
      [] action_id = "cancel_tasks" ->
            [status |-> "approved", updated_at |-> now, user_id |-> user_id]

TaskActionResult(action_id, user_id) ==
    CASE action_id = "approve_tasks" ->
            [status |-> "approved", updated_at |-> now, user_id |-> user_id]
      [] action_id = "request_task_revision" ->
            [status |-> "revision_requested", updated_at |-> now, user_id |-> user_id]
      [] action_id = "cancel_tasks" ->
            [status |-> "cancelled", updated_at |-> now, user_id |-> user_id]

TaskActionMessage(action_id) ==
    CASE action_id = "approve_tasks" -> "approved the task list"
      [] action_id = "request_task_revision" -> "requested a revision of the task list"
      [] action_id = "cancel_tasks" -> "cancelled the task list"

\* mutant: no final else, every other action id is taken as a cancel
HandleActionTasksDefaultCancel(action_id, s, user_id) ==
    LET taken == IF action_id \in {"approve_tasks", "request_task_revision"}
                 THEN action_id ELSE "cancel_tasks"
    IN  /\ IF Truthy(user_id)
           THEN \E stored \in BOOLEAN :
                   /\ CanStore(stored)
                   /\ save_conversation_to_stm(s, Get(user_id), "user",
                                               TaskActionMessage(taken), stored)
           ELSE stm' = stm
        /\ last' = Returned("handle_action", s, TaskActionResult(taken, user_id))
        /\ UNCHANGED <<now, next_id, batch, table, mtable, memory>>
        /\ UNCHANGED outside_lifecycle

HandleActionTasks(action_id, s, user_id) ==
    /\ IF action_id \in {"approve_tasks", "request_task_revision", "cancel_tasks"}
       THEN /\ IF Truthy(user_id)
               THEN \E stored \in BOOLEAN :
                       /\ CanStore(stored)
                       /\ save_conversation_to_stm(s, Get(user_id), "user",
                                                   TaskActionMessage(action_id), stored)
               ELSE stm' = stm
            /\ last' = Returned("handle_action", s, TaskActionResult(action_id, user_id))
       ELSE /\ stm' = stm
            /\ last' = Raised("handle_action", s, "ValueError")
    /\ UNCHANGED <<now, next_id, batch, table, mtable, memory>>
    /\ UNCHANGED outside_lifecycle

HandleActionMinutes(action_id, s, user_id) ==
    /\ IF action_id = "approve_minutes"
       THEN last' = Returned("handle_action", s,
                        [status |-> "approved", updated_at |-> now, user_id |-> user_id])
       ELSE IF action_id = "request_revision"
       THEN last' = Returned("handle_action", s,
                        [status |-> "revision_requested", updated_at |-> now,
                         user_id |-> user_id])
       ELSE last' = Raised("handle_action", s, "ValueError")
    /\ UNCHANGED <<now, next_id, batch, table, mtable, memory, stm>>
    /\ UNCHANGED outside_lifecycle

-----------------------------------------------------------------------------
(* TaskApprovalFlow.delete_task, add_task, handle_revision_submission *)

\* mutant: any non-empty batch is taken to hold the task
HasTaskWhenNonEmpty(task_list, task_id) == Len(task_list.tasks) > 0

HasTask(task_list, task_id) ==
    \E k \in 1..Len(task_list.tasks) : task_list.tasks[k].id = task_id

\* mutant: the filter keeps the task it should drop
WithoutTaskInverted(tasks, task_id) ==
    LET Keep(t) == t.id = task_id
    IN  SelectSeq(tasks, Keep)

\* [t for t in task_list.tasks if t.id != task_id]
WithoutTask(tasks, task_id) ==
    LET Keep(t) == t.id # task_id
    IN  SelectSeq(tasks, Keep)

delete_task(task_list, task_id) ==
    TaskList(task_list.session_id, task_list.minutes_id,
             WithoutTask(task_list.tasks, task_id),
             task_list.status, task_list.created_at, now)

add_task(task_list, task) ==
    TaskList(task_list.session_id, task_list.minutes_id,
             task_list.tasks \o <<task>>,
             task_list.status, task_list.created_at, now)

DeleteTask(s, task_id, user_id) ==
    /\ IsSome(batch[s])
    /\ LET task_list == Get(batch[s])
       IN  IF ~HasTask(task_list, task_id)
           THEN /\ stm' = stm
                /\ last' = Raised("delete_task", s, "ValueError")
           ELSE /\ IF Truthy(user_id)
                   THEN \E stored \in BOOLEAN :
                           /\ CanStore(stored)
                           /\ save_conversation_to_stm(task_list.session_id, Get(user_id),
                                                       "user", "deleted a task", stored)
                   ELSE stm' = stm
                /\ last' = Returned("delete_task", s, delete_task(task_list, task_id))
    /\ UNCHANGED <<now, next_id, batch, table, mtable, memory>>
    /\ UNCHANGED outside_lifecycle

AddTask(s, title, d, user_id) ==
    /\ IsSome(batch[s])
    /\ next_id < MaxIds
    /\ Len(Get(batch[s]).tasks) < MaxBatch
    /\ LET task_list == Get(batch[s])
           task == NewTask(next_id + 1, title, d)
       IN  /\ IF Truthy(user_id)
              THEN \E stored \in BOOLEAN :
                      /\ CanStore(stored)
                      /\ save_conversation_to_stm(task_list.session_id, Get(user_id),
                                                  "user", "added a task", stored)
              ELSE stm' = stm
           /\ last' = Returned("add_task", s, add_task(task_list, task))
    /\ next_id' = next_id + 1
    /\ UNCHANGED <<now, batch, table, mtable, memory>>
    /\ UNCHANGED outside_lifecycle

HandleRevisionSubmission(s, user_id) ==
    /\ \E stored \in BOOLEAN :
          /\ CanStore(stored)
          /\ save_conversation_to_stm(s, user_id, "user", "revision instructions", stored)
    /\ last' = [op |-> "handle_revision_submission", session |-> s, err |-> "", ret |-> None]
    /\ UNCHANGED <<now, next_id, batch, table, mtable, memory>>
    /\ UNCHANGED outside_lifecycle

-----------------------------------------------------------------------------
(* TaskApprovalFlow.save_pending_tasks / get_pending_tasks.  The calls into
   AgentCore Memory and DynamoDB can raise: `fail` names the call that does
   ("blob": create_blob_event, "put": put_item, "get": get_event). *)

\* mutant: the row keeps pointing at the first blob of the store
TaskRowFirstBlob(session_id, task_list, blob_id) ==
    [session_id |-> session_id,
     status |-> task_list.status,
     created_at |-> now,
     updated_at |-> now,
     memory_blob_id |-> 1,
     expires_at |-> now + EXPIRY_HOURS,
     task_count |-> Len(task_list.tasks)]

TaskRow(session_id, task_list, blob_id) ==
    [session_id |-> session_id,
     status |-> task_list.status,
     created_at |-> now,
     updated_at |-> now,
     memory_blob_id |-> blob_id,
     expires_at |-> now + EXPIRY_HOURS,
     task_count |-> Len(task_list.tasks)]

SavePendingTasks(s, task_list, fail) ==
    /\ Len(memory) < MaxBlobs
    /\ IF fail = "blob"
       THEN /\ UNCHANGED <<memory, table>>
            /\ last' = Raised("save_pending_tasks", s, "Exception")
       ELSE LET blob_id == Len(memory) + 1
            IN  /\ memory' = Append(memory, model_dump_json(task_list))
                /\ IF fail = "put"
                   THEN /\ UNCHANGED table
                        /\ last' = Raised("save_pending_tasks", s, "Exception")
                   ELSE /\ table' = [table EXCEPT ![s] = Some(TaskRow(s, task_list, blob_id))]
                        /\ last' = Returned("save_pending_tasks", s, [blob_id |-> blob_id])
    /\ UNCHANGED <<now, next_id, batch, mtable, stm>>
    /\ UNCHANGED outside_lifecycle

GetPendingTasks(s, fail) ==
    /\ IF table[s] = None
       THEN /\ last' = Raised("get_pending_tasks", s, "KeyError")
            /\ UNCHANGED batch
       ELSE IF fail = "get"
       THEN /\ last' = Raised("get_pending_tasks", s, "Exception")
            /\ UNCHANGED batch
       ELSE LET item == Get(table[s])
                task_list == model_validate_json(memory[item.memory_blob_id])
            IN  /\ last' = Returned("get_pending_tasks", s, task_list)
                /\ batch' = [batch EXCEPT ![s] = Some(task_list)]
    /\ UNCHANGED <<now, next_id, table, mtable, memory, stm>>
    /\ UNCHANGED outside_lifecycle

-----------------------------------------------------------------------------
(* ApprovalFlow.save_pending_minutes / get_pending_minutes.  The minutes
   body is one opaque value. *)

PendingMinutesBlob(session_id, minutes_json, source_transcript) ==
    [session_id |-> session_id, minutes_json |-> minutes_json,
     source_transcript |-> source_transcript, revision_history |-> <<>>]

PendingMinutesRecord(session_id, blob_id) ==
    [session_id |-> session_id,
     status |-> "pending",
     created_at |-> now,
     updated_at |-> now,
     memory_blob_id |-> blob_id,
     revision_count |-> 0,
     expires_at |-> now + EXPIRY_HOURS]

SavePendingMinutes(s, minutes, fail) ==
    /\ Len(memory) < MaxBlobs
    /\ IF fail = "blob"
       THEN /\ UNCHANGED <<memory, mtable>>
            /\ last' = Raised("save_pending_minutes", s, "Exception")
       ELSE LET blob_id == Len(memory) + 1
                blob == PendingMinutesBlob(s, model_dump_json(minutes), "transcript")
            IN  /\ memory' = Append(memory, model_dump_json(blob))
                /\ IF fail = "put"
                   THEN /\ UNCHANGED mtable
                        /\ last' = Raised("save_pending_minutes", s, "Exception")
                   ELSE /\ mtable' = [mtable EXCEPT ![s] =
                                         Some(PendingMinutesRecord(s, blob_id))]
                        /\ last' = Returned("save_pending_minutes", s, [blob_id |-> blob_id])
    /\ UNCHANGED <<now, next_id, batch, table, stm>>
    /\ UNCHANGED outside_lifecycle

GetPendingMinutes(s, fail) ==
    /\ IF mtable[s] = None
       THEN last' = Raised("get_pending_minutes", s, "KeyError")
       ELSE IF fail = "get"
       THEN last' = Raised("get_pending_minutes", s, "Exception")
       ELSE LET record == Get(mtable[s])
                blob == model_validate_json(memory[record.memory_blob_id])
                minutes == model_validate_json(blob.minutes_json)
            IN  last' = Returned("get_pending_minutes", s,
                                 [record |-> record, minutes |-> minutes])
    /\ UNCHANGED <<now, next_id, batch, table, mtable, memory, stm>>
    /\ UNCHANGED outside_lifecycle

-----------------------------------------------------------------------------
(* The approval flow: one task batch is under review, actions and revision
   instructions arrive for any session. *)

Reviewed == {"s1"}

LifecycleTitles == {<<"a", "a", "a", "a", "a">>}
LifecycleDetails == {d \in Details : d.priority = "low"}

Next ==
    \/ Tick
    \/ \E s \in Reviewed, status \in TaskListStatus, n \in {0, 1},
          title \in LifecycleTitles, d \in LifecycleDetails :
          NewTaskList(s, status, n, title, d)
    \/ \E a \in ActionIds, s \in Sessions, u \in UserIds : HandleActionTasks(a, s, u)
    \/ \E a \in ActionIds, s \in Sessions, u \in UserIds : HandleActionMinutes(a, s, u)
    \/ \E s \in Sessions : HandleRevisionSubmission(s, <<"U">>)

Spec == Init /\ [][Next]_vars

-----------------------------------------------------------------------------
(* Editing the batch under review: tasks are deleted from it and added to it *)

\* the titles a reviewer may type for a task to add: a plain one, a blank one
EditTitles == LifecycleTitles \cup {<<" ", " ">>}

NextEdit ==
    \/ Tick
    \/ \E s \in Reviewed, status \in TaskListStatus, n \in 0..MaxBatch,
          title \in LifecycleTitles, d \in LifecycleDetails :
          NewTaskList(s, status, n, title, d)
    \/ \E s \in Reviewed, id \in 1..MaxIds, u \in UserIds : DeleteTask(s, id, u)
    \/ \E s \in Reviewed, title \in EditTitles, d \in LifecycleDetails, u \in UserIds :
          AddTask(s, title, d, u)

SpecEdit == Init /\ [][NextEdit]_vars

-----------------------------------------------------------------------------
(* Persistence of the pending records of all sessions *)

NextStore ==
    \/ Tick
    \/ \E s \in Sessions, status \in {"pending", "approved"}, n \in {0, 1},
          title \in LifecycleTitles, d \in LifecycleDetails :
          NewTaskList(s, status, n, title, d)
    \/ \E s \in Sessions, fail \in {"none", "blob", "put"} :
          IsSome(batch[s]) /\ SavePendingTasks(s, Get(batch[s]), fail)
    \/ \E s \in Sessions, fail \in {"none", "get"} : GetPendingTasks(s, fail)
    \/ \E s \in Sessions, fail \in {"none", "blob", "put"} :
          SavePendingMinutes(s, "minutes", fail)
    \/ \E s \in Sessions, fail \in {"none", "get"} : GetPendingMinutes(s, fail)

SpecStore == Init /\ [][NextStore]_vars

-----------------------------------------------------------------------------
(* Properties of the approval flow *)

TerminalStatus == {"approved", "cancelled", "expired"}

StatusIn(record, statuses) == IsSome(record) /\ Get(record).status \in statuses

\* the session's task batch, or the metadata row of either flow, is terminal
TerminalRecord(s) ==
    \/ StatusIn(batch[s], TerminalStatus)
    \/ StatusIn(table[s], TerminalStatus)
    \/ StatusIn(mtable[s], TerminalStatus)

\* C1: once a session's record is approved, cancelled or expired, every
\* handle_action call for that session, with any action, fails with
\* LifecycleError and leaves the status unchanged.
C1_TerminalRejectsActions ==
    [][\A a \in ActionIds, s \in Sessions, u \in UserIds :
          (TerminalRecord(s) /\ (HandleActionTasks(a, s, u) \/ HandleActionMinutes(a, s, u)))
          => (last'.err = "LifecycleError" /\ batch' = batch /\ table' = table)]_vars

TaskActions == {"approve_tasks", "request_task_revision", "cancel_tasks"}
MinutesActions == {"approve_minutes", "request_revision"}

\* C2: handle_action with an action id that is not a recognised action raises
\* the unknown-action error (ValueError), returns no status and changes
\* nothing: no record, no blob, and no conversation event is appended.
C2_UnknownActionRejected ==
    [][last'.op = "handle_action" => \A s \in Sessions, u \in UserIds :
          /\ \A a \in ActionIds \ TaskActions :
                HandleActionTasks(a, s, u)
                => /\ last'.err = "ValueError"
                   /\ last'.ret = None
                   /\ UNCHANGED <<batch, table, mtable, memory, stm>>
          /\ \A a \in ActionIds \ MinutesActions :
                HandleActionMinutes(a, s, u)
                => /\ last'.err = "ValueError"
                   /\ last'.ret = None
                   /\ UNCHANGED <<batch, table, mtable, memory, stm>>]_vars

\* an unknown action was raised for a session whose batch is under review,
\* with an event of an earlier action in the log
C2_Witness ==
    /\ last.op = "handle_action"
    /\ last.err = "ValueError"
    /\ IsSome(batch[last.session])
    /\ stm # <<>>

\* the fixed table: the next status by record kind and action, the same for
\* every current status
TaskTable ==
    [a \in TaskActions |->
        CASE a = "approve_tasks" -> "approved"
          [] a = "request_task_revision" -> "revision_requested"
          [] a = "cancel_tasks" -> "cancelled"]

MinutesTable ==
    [a \in MinutesActions |->
        CASE a = "approve_minutes" -> "approved"
          [] a = "request_revision" -> "revision_requested"]

\* C3: the status handle_action returns is given by a fixed table over
\* (current status, action): approve yields approved and request-revision
\* yields revision_requested for both kinds, cancel yields cancelled for task
\* batches; the session, the user, the time and the log do not change it.
C3_TransitionTable ==
    [][last'.op = "handle_action" => \A s \in Sessions, u \in UserIds :
          /\ \A a \in TaskActions :
                HandleActionTasks(a, s, u)
                => last'.err = "" /\ Get(last'.ret).status = TaskTable[a]
          /\ \A a \in MinutesActions :
                HandleActionMinutes(a, s, u)
                => last'.err = "" /\ Get(last'.ret).status = MinutesTable[a]]_vars

\* cancel was accepted for a session whose batch is pending
C3_Witness ==
    /\ last.op = "handle_action"
    /\ last.err = ""
    /\ Get(last.ret).status = "cancelled"
    /\ StatusIn(batch[last.session], {"pending"})

\* C4: a record read after its expires_at has elapsed is reported with the
\* status expired, never with a stale pending status.
C4_ExpiredOnRead ==
    [][\A s \in Sessions, f \in {"none", "get"} :
          /\ (GetPendingMinutes(s, f) /\ last'.err = "" /\ now > Get(mtable[s]).expires_at)
             => Get(last'.ret).record.status = "expired"
          /\ (GetPendingTasks(s, f) /\ last'.err = "" /\ now > Get(table[s]).expires_at)
             => Get(last'.ret).status = "expired"]_vars

\* C5: once the record is in revision_requested, the revision submission
\* returns it to pending.
C5_EditReturnsToPending ==
    [][\A s \in Sessions :
          (HandleRevisionSubmission(s, <<"U">>)
           /\ StatusIn(batch[s], {"revision_requested"}))
          => StatusIn(batch'[s], {"pending"})]_vars

\* C6: delete_task and add_task on a batch that is approved or cancelled are
\* rejected and return no batch.
C6_EditsOnlyWhileOpen ==
    [][\A s \in Sessions, u \in UserIds :
          StatusIn(batch[s], {"approved", "cancelled"})
          => /\ \A id \in 1..MaxIds :
                   DeleteTask(s, id, u) => last'.err # "" /\ last'.ret = None
             /\ \A title \in LifecycleTitles, d \in LifecycleDetails :
                   AddTask(s, title, d, u) => last'.err # "" /\ last'.ret = None]_vars

\* seq without its k-th element
RemoveAt(seq, k) == SubSeq(seq, 1, k - 1) \o SubSeq(seq, k + 1, Len(seq))

SameHeader(new, old) ==
    /\ new.session_id = old.session_id
    /\ new.minutes_id = old.minutes_id
    /\ new.status = old.status
    /\ new.created_at = old.created_at
    /\ new.updated_at = now
    /\ new.updated_at >= old.updated_at

\* C7: delete_task and add_task return a new TaskList and leave the caller's
\* untouched; the new one keeps session_id, minutes_id, status and
\* created_at, has updated_at set to the current time, not earlier than the
\* original's, and differs in tasks by the one change only: delete removes
\* the task with the given id and keeps the others in order, add appends the
\* new task at the end.
C7_EditsReturnNewBatch ==
    [][last'.op \in {"delete_task", "add_task"} => \A s \in Sessions, u \in UserIds :
          /\ \A id \in 1..MaxIds :
                (DeleteTask(s, id, u) /\ last'.err = "")
                => LET old == Get(batch[s])
                       new == Get(last'.ret)
                   IN  /\ batch' = batch
                       /\ SameHeader(new, old)
                       /\ \E k \in 1..Len(old.tasks) :
                             /\ old.tasks[k].id = id
                             /\ new.tasks = RemoveAt(old.tasks, k)
          /\ \A title \in LifecycleTitles, d \in LifecycleDetails :
                AddTask(s, title, d, u)
                => LET old == Get(batch[s])
                       new == Get(last'.ret)
                   IN  /\ batch' = batch
                       /\ SameHeader(new, old)
                       /\ Len(new.tasks) = Len(old.tasks) + 1
                       /\ SubSeq(new.tasks, 1, Len(old.tasks)) = old.tasks
                       /\ new.tasks[Len(new.tasks)] = NewTask(next_id + 1, title, d)]_vars

\* the first of two tasks was deleted, some time after the batch was made
C7_Witness ==
    /\ last.op = "delete_task"
    /\ last.err = ""
    /\ IsSome(batch[last.session])
    /\ Len(Get(batch[last.session]).tasks) = 2
    /\ Len(Get(last.ret).tasks) = 1
    /\ Get(last.ret).tasks[1] = Get(batch[last.session]).tasks[2]
    /\ Get(last.ret).updated_at > Get(batch[last.session]).updated_at

-----------------------------------------------------------------------------
(* The duplicate merge as extract_tasks drives it: the parsed tasks are
   appended one by one, each with a fresh id, then merged. *)

AppendTask(title, d) ==
    /\ phase = "build"
    /\ Len(raw_tasks) < MaxTasks
    /\ raw_tasks' = Append(raw_tasks, NewTask(Len(raw_tasks) + 1, title, d))
    /\ UNCHANGED <<result, pairs, phase>>
    /\ UNCHANGED outside_merge

RunMerge ==
    /\ phase = "build"
    /\ pairs' = detect_duplicates(raw_tasks)
    /\ result' = merge_duplicates(raw_tasks)
    /\ phase' = "merged"
    /\ UNCHANGED raw_tasks
    /\ UNCHANGED outside_merge

\* merge_duplicates applied to its own output
RunMergeAgain ==
    /\ phase = "merged"
    /\ raw_tasks' = result
    /\ pairs' = detect_duplicates(result)
    /\ result' = merge_duplicates(result)
    /\ phase' = "remerged"
    /\ UNCHANGED outside_merge

NextMerge ==
    \/ \E title \in Titles, d \in Details : AppendTask(title, d)
    \/ RunMerge
    \/ RunMergeAgain

SpecMerge == Init /\ [][NextMerge]_vars

-----------------------------------------------------------------------------
(* Properties of the duplicate merge *)

IsDuplicatePair(t, u) ==
    AtLeast(calculate_similarity(t.title, u.title), SIMILARITY_THRESHOLD)

\* C8: merge_duplicates is idempotent: merging the output of a merge
\* returns that output unchanged (same length, order and field values).
C8_MergeIdempotent ==
    phase = "remerged" => result = raw_tasks

\* C9: the output of merge_duplicates is deduplicated: no two distinct tasks
\* of the result have a title similarity of 0.8 or more.
C9_ResultDeduplicated ==
    phase = "merged" =>
        \A i, j \in 1..Len(result) :
            i < j => ~IsDuplicatePair(result[i], result[j])

\* the indices that detect_duplicates did not merge into another one
Survivors == {i \in 1..Len(raw_tasks) : \A k \in 1..Len(pairs) : pairs[k][2] # i}

\* a survivor's merge group: itself and the indices merged into it
GroupOf(i) == {i} \cup {pairs[k][2] : k \in {m \in 1..Len(pairs) : pairs[m][1] = i}}

\* where the survivor's task stands in the result
RankOf(i) == Cardinality({k \in Survivors : k <= i})

RECURSIVE Ascending(_)
Ascending(S) ==
    IF S = {} THEN <<>>
    ELSE LET m == CHOOSE x \in S : \A y \in S : x <= y
         IN  <<m>> \o Ascending(S \ {m})

TrimmedQuote(g) == Strip(raw_tasks[g].source_quote)

\* the group's trimmed quotes, each at its first occurrence, in input order
DistinctQuotes(G) ==
    LET firsts == {g \in G : \A h \in G : h < g => TrimmedQuote(h) # TrimmedQuote(g)}
        order == Ascending(firsts)
    IN  [k \in 1..Len(order) |-> TrimmedQuote(order[k])]

NonEmptyQuotes(G) ==
    LET NonEmpty(q) == q # <<>>
    IN  SelectSeq(DistinctQuotes(G), NonEmpty)

LongestDescription(m, G) ==
    /\ \E g \in G : m.description = raw_tasks[g].description
    /\ \A g \in G : Len(m.description) >= Len(raw_tasks[g].description)

EarliestDueDate(m, G) ==
    LET present == {g \in G : IsSome(raw_tasks[g].due_date)}
    IN  IF present = {} THEN m.due_date = None
        ELSE /\ IsSome(m.due_date)
             /\ \E g \in present : m.due_date = raw_tasks[g].due_date
             /\ \A g \in present : Get(m.due_date) <= Get(raw_tasks[g].due_date)

HighestPriority(m, G) ==
    /\ \E g \in G : m.priority = raw_tasks[g].priority
    /\ \A g \in G : priority_order(m.priority) >= priority_order(raw_tasks[g].priority)

FirstNonEmptyAssignee(m, G) ==
    LET having == {g \in G : Truthy(raw_tasks[g].assignee)}
    IN  having # {} =>
            \E g \in having : /\ \A h \in having : g <= h
                              /\ m.assignee = raw_tasks[g].assignee

NoAssigneeInGroup(G) == \A g \in G : ~Truthy(raw_tasks[g].assignee)

MergedGroups == {i \in Survivors : GroupOf(i) # {i}}

-----------------------------------------------------------------------------
(* Properties of detect_duplicates and of the shape of the merge result *)

\* C11: detect_duplicates returns pairs <<i, j>> with i < j whose titles have
\* a similarity of 0.8 or more; an index is the merged index of at most one
\* pair, a merged index is never the keep index of a pair, and a merged task
\* is attached to the earliest unmerged earlier task it matches.
C11_FirstMatchWins ==
    phase = "merged" =>
        /\ \A k \in 1..Len(pairs) :
              LET i == pairs[k][1]
                  j == pairs[k][2]
              IN  /\ i \in 1..Len(raw_tasks) /\ j \in 1..Len(raw_tasks)
                  /\ i < j
                  /\ IsDuplicatePair(raw_tasks[i], raw_tasks[j])
                  /\ i \in Survivors
                  /\ \A h \in Survivors :
                        h < i => ~IsDuplicatePair(raw_tasks[h], raw_tasks[j])
        /\ \A k, m \in 1..Len(pairs) : pairs[k][2] = pairs[m][2] => k = m

\* a merged task matches two unmerged earlier tasks and went to the first
C11_Witness ==
    /\ phase = "merged"
    /\ \E k \in 1..Len(pairs) :
          \E h \in Survivors :
             /\ pairs[k][1] < h
             /\ h < pairs[k][2]
             /\ IsDuplicatePair(raw_tasks[h], raw_tasks[pairs[k][2]])

\* C12: merge_duplicates returns one task per surviving group, in the order
\* of the groups' first tasks in the input; the length is the input length
\* minus the number of pairs, a task that matches nothing is returned
\* unchanged, and the empty list gives the empty list.
C12_OnePerGroupInOrder ==
    phase = "merged" =>
        /\ Len(result) = Len(raw_tasks) - Len(pairs)
        /\ Len(result) = Cardinality(Survivors)
        /\ \A i \in Survivors :
              /\ result[RankOf(i)].id \in {raw_tasks[g].id : g \in GroupOf(i)}
              /\ GroupOf(i) = {i} => result[RankOf(i)] = raw_tasks[i]
        /\ raw_tasks = <<>> => result = <<>>

\* three tasks, the third merged into the first, the second left alone
C12_Witness ==
    /\ phase = "merged"
    /\ Len(raw_tasks) = 3
    /\ pairs = <<(<<1, 3>>)>>
    /\ Len(result) = 2
    /\ result[2] = raw_tasks[2]

-----------------------------------------------------------------------------
(* Text of the Markdown layouts.  A text is a sequence of tokens: single
   characters (" ", "\n", ",", "a") and, for the literals the formatters
   write and look for, the literal as one token ("##", "[ ]", "**Status**:",
   "2025-06-15").  Slicing by the length of a literal is the removal of its
   token.  The Japanese literals are written in Latin letters:
     "tantou:" 担当:    "kigen:" 期限:    "setsumei:" 説明:    "inyou:" 引用:
     "task-list" タスクリスト    "no-tasks" タスクはありません。 *)

StartsWith(s, prefix) ==
    Len(s) >= Len(prefix) /\ SubSeq(s, 1, Len(prefix)) = prefix

Drop(s, n) == SubSeq(s, n + 1, Len(s))

Contains(s, token) == \E i \in 1..Len(s) : s[i] = token

\* the least element of a non-empty set of numbers
Least(S) == CHOOSE x \in S : \A y \in S : x <= y

\* str.split("\n"): the k-th line lies between the (k-1)-th and the k-th
\* line break
SplitLines(text) ==
    LET breaks == {i \in 1..Len(text) : text[i] = "\n"}
        BreakBefore(k) ==
            IF k = 1 THEN 0
            ELSE Least({i \in breaks : Cardinality({j \in breaks : j < i}) = k - 2})
        BreakAfter(k) ==
            IF k = Cardinality(breaks) + 1 THEN Len(text) + 1
            ELSE Least({i \in breaks : Cardinality({j \in breaks : j < i}) = k - 1})
    IN  [k \in 1..Cardinality(breaks) + 1 |->
            SubSeq(text, BreakBefore(k) + 1, BreakAfter(k) - 1)]

\* the longest prefix of s that has no token of stops
TakeUntil(s, stops) ==
    LET at == {i \in 1..Len(s) : s[i] \in stops}
    IN  IF at = {} THEN s ELSE SubSeq(s, 1, Least(at) - 1)

\* group 1 of the pattern  \s*([^stops]+)  matched at the start of rest:
\* the white space is skipped greedily; when nothing is left to capture the
\* match backtracks and captures the last white space that is not a stop
CaptureAfter(rest, stops) ==
    LET body == LStrip(rest)
        skipped == SubSeq(rest, 1, Len(rest) - Len(body))
        run == TakeUntil(body, stops)
    IN  IF run # <<>> THEN Some(run)
        ELSE IF \E i \in 1..Len(skipped) : skipped[i] \notin stops THEN Some(<<" ">>)
        ELSE None

\* re.search(marker \s* ([^stops]+), s): group 1 of the first match, or None
SearchAfter(s, marker, stops) ==
    LET at == {i \in 1..Len(s) :
                  s[i] = marker /\ IsSome(CaptureAfter(Drop(s, i), stops))}
    IN  IF at = {} THEN None ELSE CaptureAfter(Drop(s, Least(at)), stops)

\* date.strftime("%Y-%m-%d"): the dates 1 and 2 of the model are written as
\* these two day strings
FormatDate(d) == IF d = 1 THEN "2025-01-01" ELSE "2025-06-15"

\* the tokens the pattern \d{4}-\d{2}-\d{2} matches
DateShaped == {"2025-01-01", "2025-06-15", "2025-02-30"}

\* date.fromisoformat: 2025-02-30 has the shape of a date and is none
fromisoformat(token) ==
    IF token = "2025-01-01" THEN Some(1)
    ELSE IF token = "2025-06-15" THEN Some(2)
    ELSE None

\* group 1 of  kigen:\s*(\d{4}-\d{2}-\d{2})  searched in s, or None
SearchDate(s) ==
    LET at == {i \in 1..Len(s) :
                  /\ s[i] = "kigen:"
                  /\ LStrip(Drop(s, i)) # <<>>
                  /\ Head(LStrip(Drop(s, i))) \in DateShaped}
    IN  IF at = {} THEN None ELSE Some(Head(LStrip(Drop(s, Least(at)))))

\* what a call returned (ret) or raised (err)
Ok(v) == [err |-> "", ret |-> Some(v)]
Err(e) == [err |-> e, ret |-> None]

-----------------------------------------------------------------------------
(* Task_Formatter.to_markdown *)

\* Priority.value.upper()
Upper(priority) ==
    CASE priority = "high" -> "HIGH"
      [] priority = "medium" -> "MEDIUM"
      [] priority = "low" -> "LOW"

\* sorted(tasks, key=PRIORITY_ORDER[priority]): a stable sort, high first
SortedByPriority(tasks) ==
    LET Is(p) == LET Test(t) == t.priority = p IN SelectSeq(tasks, Test)
    IN  Is("high") \o Is("medium") \o Is("low")

\* the "tantou: .., kigen: .." line of a task, if it has one
TaskDetailLines(task) ==
    LET details ==
            (IF Truthy(task.assignee)
             THEN << <<"tantou:", " ">> \o Get(task.assignee) >> ELSE <<>>)
            \o (IF IsSome(task.due_date)
                THEN << <<"kigen:", " ", FormatDate(Get(task.due_date))>> >> ELSE <<>>)
    IN  IF details # <<>>
        THEN << <<" ", " ", "-", " ">> \o Join(<<",", " ">>, details) >>
        ELSE <<>>

TaskLines(task) ==
    << <<"-", " ", "[ ]", " ">> \o task.title >>
    \o TaskDetailLines(task)
    \o << <<" ", " ", "-", " ", "setsumei:", " ">> \o task.description,
          <<" ", " ", "-", " ", "ID:", " ">> \o task.id,
          <<" ", " ", "-", " ", "inyou:", " ">> \o task.source_quote,
          <<>> >>

\* the loop over the sorted tasks: a heading where the priority changes
RECURSIVE SortedTaskLines(_, _)
SortedTaskLines(sorted_tasks, current_priority) ==
    IF sorted_tasks = <<>> THEN <<>>
    ELSE LET task == Head(sorted_tasks)
         IN  (IF task.priority # current_priority
              THEN << <<"##", " ", Upper(task.priority)>>, <<>> >> ELSE <<>>)
             \o TaskLines(task)
             \o SortedTaskLines(Tail(sorted_tasks), task.priority)

TaskListHeaderLines(task_list) ==
    << <<"#", " ", "task-list">>,
       <<>>,
       <<"-", " ", "**Session ID**:", " ">> \o task_list.session_id,
       <<"-", " ", "**Minutes ID**:", " ">> \o task_list.minutes_id,
       <<"-", " ", "**Status**:", " ", task_list.status>>,
       <<>> >>

Task_Formatter_to_markdown(task_list) ==
    IF task_list.tasks = <<>>
    THEN Join(<<"\n">>, TaskListHeaderLines(task_list) \o << <<"no-tasks">> >>)
    ELSE Join(<<"\n">>, TaskListHeaderLines(task_list)
                        \o SortedTaskLines(SortedByPriority(task_list.tasks), "none"))

-----------------------------------------------------------------------------
(* Task_Formatter.from_markdown *)

\* str.lower() of a heading word
LowerToken(c) ==
    CASE c = "HIGH" -> "high"
      [] c = "MEDIUM" -> "medium"
      [] c = "LOW" -> "low"
      [] OTHER -> c

\* group 1 of  <marker>\s*(.+)  searched in the whole text, stripped
MetaValue(text, marker) ==
    LET m == SearchAfter(text, marker, {"\n"})
    IN  IF IsSome(m) THEN Some(Strip(Get(m))) ELSE None

\* the priority of the nearest "## " heading above line i, MEDIUM when there
\* is none or when its word is not a priority
RECURSIVE HeadingPriority(_, _)
HeadingPriority(lines, j) ==
    IF j < 1 THEN "medium"
    ELSE LET prev_line == Strip(lines[j])
         IN  IF StartsWith(prev_line, <<"##", " ">>)
             THEN LET priority_str ==
                          [k \in 1..Len(Strip(Drop(prev_line, 2))) |->
                              LowerToken(Strip(Drop(prev_line, 2))[k])]
                  IN  IF priority_str \in {<<"high">>, <<"medium">>, <<"low">>}
                      THEN priority_str[1] ELSE "medium"
             ELSE HeadingPriority(lines, j - 1)

\* one detail line of a task: which fields it sets
ParseDetail(detail_content, fields) ==
    LET assignee_to_comma == SearchAfter(detail_content, "tantou:", {","})
        assignee_to_end == SearchAfter(detail_content, "tantou:", {"\n"})
        due_date_str == SearchDate(detail_content)
        due_date == IF IsSome(due_date_str) /\ IsSome(fromisoformat(Get(due_date_str)))
                    THEN fromisoformat(Get(due_date_str)) ELSE fields.due_date
    IN  IF Contains(detail_content, "tantou:") /\ Contains(detail_content, "kigen:")
        THEN [fields EXCEPT
                 !.assignee = IF IsSome(assignee_to_comma)
                              THEN Some(Strip(Get(assignee_to_comma))) ELSE @,
                 !.due_date = due_date]
        ELSE IF Contains(detail_content, "tantou:")
        THEN [fields EXCEPT
                 !.assignee = IF IsSome(assignee_to_end)
                              THEN Some(Strip(Get(assignee_to_end))) ELSE @]
        ELSE IF Contains(detail_content, "kigen:")
        THEN [fields EXCEPT !.due_date = due_date]
        ELSE IF StartsWith(detail_content, <<"setsumei:">>)
        THEN [fields EXCEPT !.description = Some(Strip(Drop(detail_content, 1)))]
        ELSE IF StartsWith(detail_content, <<"ID:">>)
        THEN [fields EXCEPT !.task_id = Some(Strip(Drop(detail_content, 1)))]
        ELSE IF StartsWith(detail_content, <<"inyou:">>)
        THEN [fields EXCEPT !.source_quote = Some(Strip(Drop(detail_content, 1)))]
        ELSE fields

\* the inner loop: reads detail lines from line i up to the next task or
\* heading; `resume` is the line the outer loop goes on with
RECURSIVE ParseDetails(_, _, _)
ParseDetails(lines, i, fields) ==
    IF i > Len(lines) THEN [fields |-> fields, resume |-> i]
    ELSE LET detail_line == Strip(lines[i])
         IN  IF StartsWith(detail_line, <<"-", " ", "[ ]">>)
                \/ StartsWith(detail_line, <<"##", " ">>)
             THEN [fields |-> fields, resume |-> i]
             ELSE IF StartsWith(detail_line, <<"-", " ">>)
             THEN ParseDetails(lines, i + 1,
                               ParseDetail(Strip(Drop(detail_line, 2)), fields))
             ELSE ParseDetails(lines, i + 1, fields)

\* the outer loop.  A task without description or quote is left out; one
\* without id is built with id=None, which the Task model rejects
RECURSIVE ParseTasks(_, _, _)
ParseTasks(lines, i, tasks) ==
    IF i > Len(lines) THEN Ok(tasks)
    ELSE LET line == Strip(lines[i])
         IN  IF StartsWith(line, <<"-", " ", "[ ]", " ">>) /\ Len(line) > 4
             THEN LET title == Strip(Drop(line, 4))
                      priority == HeadingPriority(lines, i - 1)
                      d == ParseDetails(lines, i + 1,
                              [assignee |-> None, due_date |-> None,
                               description |-> None, task_id |-> None,
                               source_quote |-> None])
                      f == d.fields
                  IN  IF Truthy(f.description) /\ Truthy(f.source_quote)
                      THEN IF Truthy(f.task_id)
                           THEN ParseTasks(lines, d.resume,
                                    Append(tasks,
                                        Task(Get(f.task_id), title, Get(f.description),
                                             f.assignee, f.due_date, priority,
                                             Get(f.source_quote))))
                           ELSE Err("ValidationError")
                      ELSE ParseTasks(lines, d.resume, tasks)
             ELSE ParseTasks(lines, i + 1, tasks)

Task_Formatter_from_markdown(text) ==
    LET lines == SplitLines(Strip(text))
        session_id == MetaValue(text, "**Session ID**:")
        minutes_id == MetaValue(text, "**Minutes ID**:")
        status_str == MetaValue(text, "**Status**:")
    IN  IF ~IsSome(session_id) THEN Err("ValueError: Session ID")
        ELSE IF ~IsSome(minutes_id) THEN Err("ValueError: Minutes ID")
        ELSE IF ~IsSome(status_str) THEN Err("ValueError: Status")
        ELSE IF ~(Len(Get(status_str)) = 1 /\ Get(status_str)[1] \in TaskListStatus)
        THEN Err("ValueError: invalid status")
        ELSE LET tasks == ParseTasks(lines, 1, <<>>)
             IN  IF tasks.err # "" THEN tasks
                 ELSE Ok(TaskList(Get(session_id), Get(minutes_id), Get(tasks.ret),
                                  Get(status_str)[1], now, now))

-----------------------------------------------------------------------------
(* The task list codec: a TaskList is built, written as Markdown, the text
   is possibly edited by hand, and read back. *)

MaxFormatTasks == 2

\* str(uuid4()) of the n-th task
TaskIdText(n) == IF n = 1 THEN <<"id1">> ELSE IF n = 2 THEN <<"id2">> ELSE <<"id3">>

InitFormat ==
    /\ InitLifecycle
    /\ InitMergeVars
    /\ InitValidateVars
    /\ InitExtractVars
    /\ InitSimilarityVars
    /\ \E status \in TaskListStatus :
          doc = TaskList(<<"s1">>, <<"m1">>, <<>>, status, 0, 0)
    /\ markdown = <<>>
    /\ restored = None
    /\ codec = "build"

FormatAppendTask(title, d) ==
    /\ codec = "build"
    /\ Len(doc.tasks) < MaxFormatTasks
    /\ doc' = [doc EXCEPT !.tasks =
                  Append(@, NewTask(TaskIdText(Len(doc.tasks) + 1), title, d))]
    /\ UNCHANGED <<markdown, restored, codec>>
    /\ UNCHANGED outside_codec

TaskListToMarkdown ==
    /\ codec = "build"
    /\ markdown' = Task_Formatter_to_markdown(doc)
    /\ codec' = "text"
    /\ UNCHANGED <<doc, restored>>
    /\ UNCHANGED outside_codec

\* the text without its lines that hold the token
WithoutLinesOf(text, token) ==
    LET Keep(line) == ~Contains(line, token)
    IN  Join(<<"\n">>, SelectSeq(SplitLines(text), Keep))

\* the text with every token of `from` replaced by `to`
Replaced(text, from, to) ==
    [i \in 1..Len(text) |-> IF text[i] \in from THEN to ELSE text[i]]

\* a hand edit that removes a required line or makes a token unparseable
EditedText(text, edit) ==
    CASE edit = "cut_session" -> WithoutLinesOf(text, "**Session ID**:")
      [] edit = "cut_minutes" -> WithoutLinesOf(text, "**Minutes ID**:")
      [] edit = "cut_status" -> WithoutLinesOf(text, "**Status**:")
      [] edit = "cut_description" -> WithoutLinesOf(text, "setsumei:")
      [] edit = "bad_status" -> Replaced(text, TaskListStatus, "bogus")
      [] edit = "bad_date" -> Replaced(text, DateShaped, "2025-02-30")
      [] edit = "bad_priority" -> Replaced(text, {"HIGH", "MEDIUM", "LOW"}, "URGENT")

TaskListEdits ==
    {"cut_session", "cut_minutes", "cut_status", "cut_description",
     "bad_status", "bad_date", "bad_priority"}

EditTaskListText(edit) ==
    /\ codec = "text"
    /\ restored = None
    /\ EditedText(markdown, edit) # markdown
    /\ markdown' = EditedText(markdown, edit)
    /\ codec' = edit
    /\ UNCHANGED <<doc, restored>>
    /\ UNCHANGED outside_codec

TaskListFromMarkdown ==
    /\ codec # "build"
    /\ restored = None
    /\ restored' = Some(Task_Formatter_from_markdown(markdown))
    /\ UNCHANGED <<doc, markdown, codec>>
    /\ UNCHANGED outside_codec

NextFormat ==
    \/ \E title \in Titles, d \in Details : FormatAppendTask(title, d)
    \/ TaskListToMarkdown
    \/ \E edit \in TaskListEdits : EditTaskListText(edit)
    \/ TaskListFromMarkdown

SpecFormat == InitFormat /\ [][NextFormat]_vars

-----------------------------------------------------------------------------
(* Properties of the task list codec *)

\* the fields of a task the layout carries
SameTask(t, u) ==
    /\ t.id = u.id
    /\ t.title = u.title
    /\ t.description = u.description
    /\ t.assignee = u.assignee
    /\ t.due_date = u.due_date
    /\ t.priority = u.priority
    /\ t.source_quote = u.source_quote

\* C13: from_markdown(to_markdown(r)) returns r's session_id, minutes_id and
\* status and r's tasks, as many and in the same order, each with equal id,
\* title, description, assignee, due_date, priority and source_quote; the
\* empty task list included.
C13_TaskListRoundTrip ==
    (codec = "text" /\ IsSome(restored)) =>
        /\ Get(restored).err = ""
        /\ LET back == Get(Get(restored).ret)
           IN  /\ back.session_id = doc.session_id
               /\ back.minutes_id = doc.minutes_id
               /\ back.status = doc.status
               /\ Len(back.tasks) = Len(doc.tasks)
               /\ \A k \in 1..Len(doc.tasks) : SameTask(back.tasks[k], doc.tasks[k])

\* the error from_markdown has to raise for a hand edit, "" for any error
ErrorNaming(edit) ==
    CASE edit = "cut_session" -> "ValueError: Session ID"
      [] edit = "cut_minutes" -> "ValueError: Minutes ID"
      [] edit = "cut_status" -> "ValueError: Status"
      [] edit = "bad_status" -> "ValueError: invalid status"
      [] OTHER -> ""

\* C15: from_markdown does not repair malformed text: when a required line
\* (session id, minutes id, status) is missing, or a status, date or priority
\* token cannot be parsed, or a task has lost its description, it raises an
\* error naming the section or value instead of returning a record.
C15_NoSilentRepair ==
    (codec \in TaskListEdits /\ IsSome(restored)) =>
        /\ Get(restored).err # ""
        /\ ErrorNaming(codec) # "" => Get(restored).err = ErrorNaming(codec)

-----------------------------------------------------------------------------
(* Minutes and ActionItem (models/minutes.py) and MinutesFormatter.to_markdown.
   The section names and markers in Latin letters:
     "nichiji" 日時    "sankasha" 参加者    "gidai" 議題    "giron" 議論内容
     "kettei" 決定事項    "action-items" アクションアイテム
     "fumei" 不明    "nashi" なし *)

ActionItem(description, assignee, due_date, completed) ==
    [description |-> description, assignee |-> assignee, due_date |-> due_date,
     completed |-> completed]

Minutes(title, date, participants, agenda, discussion, decisions, action_items) ==
    [title |-> title, date |-> date, participants |-> participants,
     agenda |-> agenda, discussion |-> discussion, decisions |-> decisions,
     action_items |-> action_items]

\* a datetime: the day, the time of day to the minute, and the seconds
DateTime(day, hhmm, second) == [day |-> day, hhmm |-> hhmm, second |-> second]

\* datetime.strftime("%Y-%m-%d %H:%M"): the seconds are not written
strftime_minutes(date) == <<FormatDate(date.day), " ", date.hhmm>>

\* the tokens %H:%M parses
TimeShaped == {"10:00", "23:59"}

\* datetime.strptime(text, "%Y-%m-%d %H:%M"), None for a ValueError
strptime_minutes(text) ==
    IF Len(text) = 3 /\ IsSome(fromisoformat(text[1])) /\ text[2] = " "
       /\ text[3] \in TimeShaped
    THEN Some(DateTime(Get(fromisoformat(text[1])), text[3], 0))
    ELSE None

\* "- item" per element, or the marker line when the list is empty
BulletLines(items, marker) ==
    IF items # <<>>
    THEN [k \in 1..Len(items) |-> <<"-", " ">> \o items[k]]
    ELSE << <<marker>> >>

ActionItemLine(action) ==
    LET checkbox == IF action.completed THEN "[x]" ELSE "[ ]"
        details ==
            (IF Truthy(action.assignee)
             THEN << <<"tantou:", " ">> \o Get(action.assignee) >> ELSE <<>>)
            \o (IF Truthy(action.due_date)
                THEN << <<"kigen:", " ">> \o Get(action.due_date) >> ELSE <<>>)
    IN  <<"-", " ", checkbox, " ">> \o action.description
        \o (IF details # <<>>
            THEN <<" ", "(">> \o Join(<<",", " ">>, details) \o <<")">>
            ELSE <<>>)

MinutesFormatter_to_markdown(minutes) ==
    Join(<<"\n">>,
         << <<"#", " ">> \o minutes.title, <<>>,
            <<"##", " ", "nichiji">>, strftime_minutes(minutes.date), <<>>,
            <<"##", " ", "sankasha">> >>
         \o BulletLines(minutes.participants, "fumei") \o << <<>> >>
         \o << <<"##", " ", "gidai">> >>
         \o BulletLines(minutes.agenda, "nashi") \o << <<>> >>
         \o << <<"##", " ", "giron">>, minutes.discussion, <<>> >>
         \o << <<"##", " ", "kettei">> >>
         \o BulletLines(minutes.decisions, "nashi") \o << <<>> >>
         \o << <<"##", " ", "action-items">> >>
         \o (IF minutes.action_items # <<>>
             THEN [k \in 1..Len(minutes.action_items) |->
                      ActionItemLine(minutes.action_items[k])]
             ELSE << <<"nashi">> >>)
         \o << <<>> >>)

-----------------------------------------------------------------------------
(* MinutesFormatter.from_markdown *)

\* extract_section: the text between the first heading line "## <name>" and
\* the next line that starts with "## ", stripped; "" when there is no such
\* heading
extract_section(text, section_name) ==
    LET lines == SplitLines(text)
        heads == {k \in 1..Len(lines) - 1 :
                     /\ StartsWith(lines[k], <<"##", " ", section_name>>)
                     /\ Strip(Drop(lines[k], 3)) = <<>>}
    IN  IF heads = {} THEN <<>>
        ELSE LET h == Least(heads)
                 nexts == {k \in h + 1..Len(lines) : StartsWith(lines[k], <<"##", " ">>)}
                 last_line == IF nexts = {} THEN Len(lines) ELSE Least(nexts) - 1
             IN  Strip(Join(<<"\n">>, SubSeq(lines, h + 1, last_line)))

\* the "- item" lines of a list section
ParseBullets(section, marker) ==
    IF section = <<>> \/ section = <<marker>> THEN <<>>
    ELSE LET stripped == [k \in 1..Len(SplitLines(section)) |->
                             Strip(SplitLines(section)[k])]
             IsBullet(line) == StartsWith(line, <<"-", " ">>)
             bullets == SelectSeq(stripped, IsBullet)
         IN  [k \in 1..Len(bullets) |-> Strip(Drop(bullets[k], 2))]

\* one line of the action item section: None when it is no checkbox line,
\* else the ActionItem, or an error when its description comes out empty
ParseActionItem(line) ==
    IF ~(Len(line) > 4 /\ SubSeq(line, 1, 2) = <<"-", " ">>
         /\ line[3] \in {"[ ]", "[x]"} /\ line[4] = " ")
    THEN None
    ELSE LET completed == line[3] = "[x]"
             rest == Strip(Drop(line, 4))
             opens == {i \in 1..Len(rest) - 2 : rest[i] = "("}
             has_details == opens # {} /\ rest[Len(rest)] = ")"
             open == Least(opens)
             details == SubSeq(rest, open + 1, Len(rest) - 1)
             description == IF has_details THEN Strip(SubSeq(rest, 1, open - 1))
                            ELSE rest
             assignee_match == SearchAfter(details, "tantou:", {",", ")"})
             due_date_match == SearchDate(details)
             assignee == IF has_details /\ IsSome(assignee_match)
                         THEN Some(Strip(Get(assignee_match))) ELSE None
             due_date == IF has_details /\ IsSome(due_date_match)
                         THEN Some(<<Get(due_date_match)>>) ELSE None
         IN  IF description = <<>> THEN Some(Err("ValidationError"))
             ELSE Some(Ok(ActionItem(description, assignee, due_date, completed)))

ParseActionItems(section) ==
    IF section = <<>> \/ section = <<"nashi">> THEN <<>>
    ELSE LET parsed == [k \in 1..Len(SplitLines(section)) |->
                           ParseActionItem(Strip(SplitLines(section)[k]))]
         IN  SelectSeq(parsed, IsSome)

MinutesFormatter_from_markdown(text) ==
    LET lines == SplitLines(text)
        titles == {k \in 1..Len(lines) :
                      StartsWith(lines[k], <<"#", " ">>) /\ Len(lines[k]) > 2}
        title == Strip(Drop(lines[Least(titles)], 2))
        date_str == extract_section(text, "nichiji")
        discussion == extract_section(text, "giron")
        items == ParseActionItems(extract_section(text, "action-items"))
    IN  IF titles = {} THEN Err("ValueError: title")
        ELSE IF date_str = <<>> THEN Err("ValueError: date section")
        ELSE IF ~IsSome(strptime_minutes(date_str)) THEN Err("ValueError: date value")
        ELSE IF discussion = <<>> THEN Err("ValueError: discussion section")
        ELSE IF \E k \in 1..Len(items) : Get(items[k]).err # ""
        THEN Err("ValidationError")
        ELSE IF title = <<>> THEN Err("ValidationError")
        ELSE Ok(Minutes(title, Get(strptime_minutes(date_str)),
                        ParseBullets(extract_section(text, "sankasha"), "fumei"),
                        ParseBullets(extract_section(text, "gidai"), "nashi"),
                        discussion,
                        ParseBullets(extract_section(text, "kettei"), "nashi"),
                        [k \in 1..Len(items) |-> Get(Get(items[k]).ret)]))

-----------------------------------------------------------------------------
(* The minutes codec: a Minutes record is built, written as Markdown, the
   text is possibly edited by hand, and read back. *)

MaxItems == 2
MaxBullets == 1

\* action items: with assignee and day, with brackets in the description,
\* with a due date in free words
ActionItems ==
    { ActionItem(<<"f">>, Some(<<"A">>), Some(<<"2025-01-01">>), FALSE),
      ActionItem(<<"f", " ", "(", "b", ")">>, None, None, TRUE),
      ActionItem(<<"g">>, None, Some(<<"s", "o", "o", "n">>), FALSE) }

InitMinutes ==
    /\ InitLifecycle
    /\ InitMergeVars
    /\ InitValidateVars
    /\ InitExtractVars
    /\ InitSimilarityVars
    /\ \E second \in {0, 30} :
          doc = Minutes(<<"T">>, DateTime(1, "10:00", second), <<>>, <<>>, <<"x">>,
                        <<>>, <<>>)
    /\ markdown = <<>>
    /\ restored = None
    /\ codec = "build"

MinutesAppend(field, item, bound) ==
    /\ codec = "build"
    /\ Len(doc[field]) < bound
    /\ doc' = [doc EXCEPT ![field] = Append(@, item)]
    /\ UNCHANGED <<markdown, restored, codec>>
    /\ UNCHANGED outside_codec

MinutesToMarkdown ==
    /\ codec = "build"
    /\ markdown' = MinutesFormatter_to_markdown(doc)
    /\ codec' = "text"
    /\ UNCHANGED <<doc, restored>>
    /\ UNCHANGED outside_codec

\* the text with the token that follows `marker` and a space replaced
ReplacedAfter(text, marker, to) ==
    [i \in 1..Len(text) |->
        IF i > 2 /\ text[i - 2] = marker /\ text[i - 1] = " " THEN to ELSE text[i]]

\* a hand edit that removes a required heading or makes a date unparseable
EditedMinutesText(text, edit) ==
    CASE edit = "cut_title" -> WithoutLinesOf(text, "#")
      [] edit = "cut_date" -> WithoutLinesOf(text, "nichiji")
      [] edit = "cut_discussion" -> WithoutLinesOf(text, "giron")
      [] edit = "bad_date" -> Replaced(text, TimeShaped, "noon")
      [] edit = "bad_due_date" -> ReplacedAfter(text, "kigen:", "someday")

MinutesEdits == {"cut_title", "cut_date", "cut_discussion", "bad_date", "bad_due_date"}

EditMinutesText(edit) ==
    /\ codec = "text"
    /\ restored = None
    /\ EditedMinutesText(markdown, edit) # markdown
    /\ markdown' = EditedMinutesText(markdown, edit)
    /\ codec' = edit
    /\ UNCHANGED <<doc, restored>>
    /\ UNCHANGED outside_codec

MinutesFromMarkdown ==
    /\ codec # "build"
    /\ restored = None
    /\ restored' = Some(MinutesFormatter_from_markdown(markdown))
    /\ UNCHANGED <<doc, markdown, codec>>
    /\ UNCHANGED outside_codec

NextMinutes ==
    \/ MinutesAppend("participants", <<"P">>, MaxItems)
    \/ MinutesAppend("agenda", <<"a">>, MaxBullets)
    \/ MinutesAppend("decisions", <<"d">>, MaxBullets)
    \/ \E item \in ActionItems : MinutesAppend("action_items", item, MaxItems)
    \/ MinutesToMarkdown
    \/ \E edit \in MinutesEdits : EditMinutesText(edit)
    \/ MinutesFromMarkdown

SpecMinutes == InitMinutes /\ [][NextMinutes]_vars

-----------------------------------------------------------------------------
(* Properties of the minutes codec *)

\* the line that follows the heading of the section in the text
LineUnder(text, section_name) ==
    LET lines == SplitLines(text)
        h == Least({k \in 1..Len(lines) : lines[k] = <<"##", " ", section_name>>})
    IN  lines[h + 1]

\* C14: from_markdown(to_markdown(r)) returns r's title, date, participants,
\* agenda, discussion, decisions and action items (description, assignee,
\* due date, completed); an empty participants, agenda, decisions or
\* action_items list is written as its marker line under the section's
\* heading and read back as the empty list.
C14_MinutesRoundTrip ==
    /\ codec = "text" =>
          /\ doc.participants = <<>> => LineUnder(markdown, "sankasha") = <<"fumei">>
          /\ doc.agenda = <<>> => LineUnder(markdown, "gidai") = <<"nashi">>
          /\ doc.decisions = <<>> => LineUnder(markdown, "kettei") = <<"nashi">>
          /\ doc.action_items = <<>> => LineUnder(markdown, "action-items") = <<"nashi">>
    /\ (codec = "text" /\ IsSome(restored)) =>
          /\ Get(restored).err = ""
          /\ Get(Get(restored).ret) = doc

-----------------------------------------------------------------------------
(* Duplicate_Detector.calculate_similarity, the scorer for issue titles *)

\* the matching blocks <<i, j, k>>: a[i..i+k-1] = b[j..j+k-1], k > 0
MatchingBlocks(a, b) ==
    {m \in (1..Len(a)) \X (1..Len(b)) \X (1..Len(a)) :
        /\ m[1] + m[3] - 1 <= Len(a)
        /\ m[2] + m[3] - 1 <= Len(b)
        /\ SubSeq(a, m[1], m[1] + m[3] - 1) = SubSeq(b, m[2], m[2] + m[3] - 1)}

\* SequenceMatcher.find_longest_match: the longest block, of those the one
\* that starts earliest in a, of those the one that starts earliest in b
LongestMatch(a, b) ==
    CHOOSE m \in MatchingBlocks(a, b) :
        \A o \in MatchingBlocks(a, b) :
            \/ m[3] > o[3]
            \/ m[3] = o[3] /\ m[1] < o[1]
            \/ m[3] = o[3] /\ m[1] = o[1] /\ m[2] <= o[2]

\* SequenceMatcher.get_matching_blocks, summed: the longest match, then the
\* same to its left and to its right
RECURSIVE MatchedLength(_, _)
MatchedLength(a, b) ==
    IF MatchingBlocks(a, b) = {} THEN 0
    ELSE LET m == LongestMatch(a, b)
         IN  m[3] + MatchedLength(SubSeq(a, 1, m[1] - 1), SubSeq(b, 1, m[2] - 1))
                  + MatchedLength(SubSeq(a, m[1] + m[3], Len(a)),
                                  SubSeq(b, m[2] + m[3], Len(b)))

\* SequenceMatcher.ratio(): 2.0 * matches / length, 1.0 when length is 0
SequenceMatcherRatio(a, b) ==
    IF Len(a) + Len(b) = 0 THEN Ratio(1, 1)
    ELSE Ratio(2 * MatchedLength(a, b), Len(a) + Len(b))

Issue_calculate_similarity(title1, title2) ==
    IF title1 = <<>> /\ title2 = <<>> THEN Ratio(1, 1)
    ELSE IF title1 = <<>> \/ title2 = <<>> THEN Ratio(0, 1)
    ELSE LET normalized_title1 == Lower(Strip(title1))
             normalized_title2 == Lower(Strip(title2))
         IN  SequenceMatcherRatio(normalized_title1, normalized_title2)

-----------------------------------------------------------------------------
(* Similarity driver: the two scorers on every pair of short titles *)

MaxTitleLen == 3

TitleChars == {"a", "b", "A", " "}

ShortTitles == UNION {[1..k -> TitleChars] : k \in 0..MaxTitleLen}

InitSimilarity ==
    /\ InitLifecycle
    /\ InitMergeVars
    /\ InitCodecVars
    /\ InitValidateVars
    /\ InitExtractVars
    /\ \E title1 \in ShortTitles, title2 \in ShortTitles :
          compared = [title1 |-> title1, title2 |-> title2, similarity |-> None,
                      issue_similarity |-> None]

CalculateSimilarity ==
    /\ compared.similarity = None
    /\ compared' = [compared EXCEPT
                       !.similarity = Some(calculate_similarity(compared.title1,
                                                                compared.title2))]
    /\ UNCHANGED outside_similarity

CalculateIssueSimilarity ==
    /\ compared.issue_similarity = None
    /\ compared' = [compared EXCEPT
                       !.issue_similarity =
                           Some(Issue_calculate_similarity(compared.title1,
                                                           compared.title2))]
    /\ UNCHANGED outside_similarity

NextSimilarity ==
    \/ CalculateSimilarity
    \/ CalculateIssueSimilarity

SpecSimilarity == InitSimilarity /\ [][NextSimilarity]_vars

\* C20: calculate_similarity(a, a) is 1.0 for every non-empty a, and for all
\* a and b the result lies between 0.0 and 1.0.
C20_SimilarityIdentityAndRange ==
    IsSome(compared.similarity) =>
        LET similarity == Get(compared.similarity)
        IN  /\ similarity.den > 0
            /\ 0 <= similarity.num
            /\ similarity.num <= similarity.den
            /\ (compared.title1 = compared.title2 /\ compared.title1 # <<>>) =>
                  similarity.num = similarity.den

C20_Witness ==
    /\ IsSome(compared.similarity)
    /\ compared.title1 = <<" ", "a", "A">>
    /\ compared.title2 = compared.title1
    /\ Get(compared.similarity) = Ratio(1, 1)

SameRatio(x, y) == x.num * y.den = y.num * x.den

\* C21: the similarity depends on the normalized inputs only:
\* calculate_similarity(a, b) equals calculate_similarity of the trimmed,
\* lower-cased a and b.
C21_SimilarityOfNormalizedInputs ==
    IsSome(compared.similarity) =>
        SameRatio(Get(compared.similarity),
                  calculate_similarity(Strip(Lower(compared.title1)),
                                       Strip(Lower(compared.title2))))

\* C22: when at least one of the two titles is empty, the scorer for tasks
\* and the scorer for issues return the same score.
C22_EmptyConventionUniform ==
    (/\ IsSome(compared.similarity)
     /\ IsSome(compared.issue_similarity)
     /\ (compared.title1 = <<>> \/ compared.title2 = <<>>)) =>
        SameRatio(Get(compared.similarity), Get(compared.issue_similarity))

-----------------------------------------------------------------------------
(* Task_Validator *)

MAX_TITLE_LENGTH == 100

\* type(task.due_date).  A Task built by the pydantic constructor holds a
\* date there; an object that was filled without validation (model_construct,
\* attribute assignment) says in due_date_type what it was given.
TypeOfDueDate(task) ==
    IF "due_date_type" \in DOMAIN task THEN task.due_date_type ELSE "date"

\* the messages of class TaskValidationError
TaskValidationError ==
    { "TaskValidationError: title empty", "TaskValidationError: title too long",
      "TaskValidationError: priority", "TaskValidationError: due date" }

\* mutant: the length check rejects a title of exactly MAX_TITLE_LENGTH
ValidateTaskRejectsBoundary(task) ==
    IF task.title = <<>> \/ Strip(task.title) = <<>>
    THEN "TaskValidationError: title empty"
    ELSE IF Len(task.title) >= MAX_TITLE_LENGTH
    THEN "TaskValidationError: title too long"
    ELSE IF task.priority \notin Priority
    THEN "TaskValidationError: priority"
    ELSE IF IsSome(task.due_date) /\ TypeOfDueDate(task) # "date"
    THEN "TaskValidationError: due date"
    ELSE ""

\* the exception validate_task raises, "" when it returns
validate_task(task) ==
    IF task.title = <<>> \/ Strip(task.title) = <<>>
    THEN "TaskValidationError: title empty"
    ELSE IF Len(task.title) > MAX_TITLE_LENGTH
    THEN "TaskValidationError: title too long"
    ELSE IF task.priority \notin Priority
    THEN "TaskValidationError: priority"
    ELSE IF IsSome(task.due_date) /\ TypeOfDueDate(task) # "date"
    THEN "TaskValidationError: due date"
    ELSE ""

\* mutant: the loop ends at the first task that fails
RECURSIVE ValidTasksUntilInvalid(_, _)
ValidTasksUntilInvalid(tasks, valid_tasks) ==
    IF tasks = <<>> THEN valid_tasks
    ELSE IF validate_task(Head(tasks)) = ""
    THEN ValidTasksUntilInvalid(Tail(tasks), Append(valid_tasks, Head(tasks)))
    ELSE valid_tasks

\* the loop of validate_task_list: except TaskValidationError: continue
RECURSIVE ValidTasks(_, _)
ValidTasks(tasks, valid_tasks) ==
    IF tasks = <<>> THEN valid_tasks
    ELSE IF validate_task(Head(tasks)) = ""
    THEN ValidTasks(Tail(tasks), Append(valid_tasks, Head(tasks)))
    ELSE ValidTasks(Tail(tasks), valid_tasks)

validate_task_list(task_list) == Ok(ValidTasks(task_list.tasks, <<>>))

validate_and_filter(task_list) ==
    LET valid_tasks == validate_task_list(task_list)
    IN  IF valid_tasks.err # "" THEN valid_tasks
        ELSE Ok(TaskList(task_list.session_id, task_list.minutes_id,
                         Get(valid_tasks.ret), task_list.status,
                         task_list.created_at, task_list.updated_at))

-----------------------------------------------------------------------------
(* Validator driver: objects of class Task, valid or not, are handed to
   validate_task one at a time and to the two list operations as a list *)

MaxCandidates == 3

Repeat(c, n) == [i \in 1..n |-> c]

\* a Task-shaped object whose fields were set without pydantic's validation
Unvalidated(id, title, priority, due) ==
    [id |-> id, title |-> title, description |-> <<"d">>, assignee |-> None,
     due_date |-> due.value, priority |-> priority, source_quote |-> <<"q">>,
     due_date_type |-> due.type]

\* "", blank, plain, padded, and titles of 100 and 101 characters
CandidateTitles ==
    { <<>>, <<" ", " ">>, <<"a", "a", "a", "a", "a">>, <<" ", "a", " ">>,
      Repeat("a", MAX_TITLE_LENGTH), Repeat("a", MAX_TITLE_LENGTH + 1) }

CandidatePriorities == Priority \cup {"urgent"}

\* None, date(2025, 1, 1) and the string "2025-01-01"
CandidateDueDates ==
    { [value |-> None, type |-> "NoneType"],
      [value |-> Some(1), type |-> "date"],
      [value |-> Some(1), type |-> "str"] }

\* the lists are built from fewer objects than the single calls see
ListTitles == { <<" ", " ">>, <<"a", "a", "a", "a", "a">>, Repeat("a", MAX_TITLE_LENGTH + 1) }
ListPriorities == {"medium", "urgent"}
ListDueDates == { d \in CandidateDueDates : d.type # "date" }

CandidateList(status) == TaskList("s1", "minutes-1", candidates, status, 0, 0)

AppendCandidate(title, priority, due) ==
    /\ validation = None
    /\ Len(candidates) < MaxCandidates
    /\ candidates' = Append(candidates,
                            Unvalidated(Len(candidates) + 1, title, priority, due))
    /\ UNCHANGED validation
    /\ UNCHANGED outside_validate

\* the single call does not read the list; it is explored before one is built
ValidateTask(title, priority, due) ==
    /\ validation = None
    /\ candidates = <<>>
    /\ LET task == Unvalidated(1, title, priority, due)
           e == validate_task(task)
       IN  validation' = Some([op |-> "validate_task", arg |-> task,
                               out |-> IF e = "" THEN Ok("None") ELSE Err(e)])
    /\ UNCHANGED candidates
    /\ UNCHANGED outside_validate

ValidateTaskList(status) ==
    /\ validation = None
    /\ validation' = Some([op |-> "validate_task_list", arg |-> CandidateList(status),
                           out |-> validate_task_list(CandidateList(status))])
    /\ UNCHANGED candidates
    /\ UNCHANGED outside_validate

ValidateAndFilter(status) ==
    /\ validation = None
    /\ validation' = Some([op |-> "validate_and_filter", arg |-> CandidateList(status),
                           out |-> validate_and_filter(CandidateList(status))])
    /\ UNCHANGED candidates
    /\ UNCHANGED outside_validate

NextValidate ==
    \/ \E title \in ListTitles, priority \in ListPriorities, due \in ListDueDates :
          AppendCandidate(title, priority, due)
    \/ \E title \in CandidateTitles, priority \in CandidatePriorities,
          due \in CandidateDueDates : ValidateTask(title, priority, due)
    \/ \E status \in {"pending", "approved"} : ValidateTaskList(status)
    \/ \E status \in {"pending", "approved"} : ValidateAndFilter(status)

SpecValidate == Init /\ [][NextValidate]_vars

\* the tasks a list operation returned
ReturnedTasks ==
    LET v == Get(validation)
    IN  IF v.op = "validate_task_list" THEN Get(v.out.ret) ELSE Get(v.out.ret).tasks

PassingIndexes == { i \in 1..Len(candidates) : validate_task(candidates[i]) = "" }

\* C16: validate_task_list and validate_and_filter return exactly the tasks
\* that pass validate_task, in their original order, and never raise because
\* a task is invalid.
C16_FilterKeepsPassingInOrder ==
    (IsSome(validation)
        /\ Get(validation).op \in {"validate_task_list", "validate_and_filter"}) =>
        /\ Get(validation).out.err = ""
        /\ Len(ReturnedTasks) = Cardinality(PassingIndexes)
        /\ \A i \in PassingIndexes :
              ReturnedTasks[Cardinality({h \in PassingIndexes : h <= i})] = candidates[i]

C16_Witness ==
    /\ IsSome(validation)
    /\ Get(validation).op = "validate_and_filter"
    /\ Len(candidates) = 3
    /\ PassingIndexes = {1, 3}
    /\ candidates[1] # candidates[3]
    /\ Get(Get(validation).out.ret).tasks = <<candidates[1], candidates[3]>>

\* what the specification asks of a task
Acceptable(task) ==
    /\ \E i \in 1..Len(task.title) : ~IsSpace(task.title[i])
    /\ Len(task.title) <= 100
    /\ task.priority \in {"high", "medium", "low"}
    /\ task.due_date = None \/ task.due_date_type = "date"

\* C17: validate_task accepts a task exactly when its title is not blank
\* after trimming, the title has at most 100 characters (100 accepted, 101
\* rejected), the priority is high, medium or low, and the due date is absent
\* or a date object rather than a string; otherwise it raises
\* TaskValidationError.
C17_ValidateTaskAcceptsIff ==
    (IsSome(validation) /\ Get(validation).op = "validate_task") =>
        LET v == Get(validation)
        IN  /\ v.out.err = "" <=> Acceptable(v.arg)
            /\ v.out.err # "" => v.out.err \in TaskValidationError

C17_Witness ==
    /\ IsSome(validation)
    /\ Get(validation).op = "validate_task"
    /\ Len(Get(validation).arg.title) = 100
    /\ Get(validation).arg.due_date_type = "date"
    /\ Get(validation).out.err = ""

-----------------------------------------------------------------------------
(* Task_Extractor.extract_tasks.  What lies outside the process (the Bedrock
   model, the long-term memory) is an input of the call: env says how many
   attempts of the model fail, what its answer decodes to, and what the
   memory search finds. *)

\* with_retry(max_retries, base_delay, exceptions, on_final_failure) around a
\* function.  outcomes[k] is what the k-th call of the function does: "ok"
\* when it returns value, else the name of the exception it raises.
\* on_final_failure is "none" (no callback), "returns" or "raises".  The
\* loop variable attempt counts from 0.  calls is the number of calls of the
\* function made, notified the number of calls of the callback.
RECURSIVE RetryLoop(_, _, _, _, _, _)
RetryLoop(attempt, max_retries, exceptions, on_final_failure, outcomes, value) ==
    LET outcome == outcomes[attempt + 1]
    IN  IF outcome = "ok"
        THEN [err |-> "", ret |-> Some(value), calls |-> attempt + 1, notified |-> 0]
        ELSE IF outcome \notin exceptions
        THEN [err |-> outcome, ret |-> None, calls |-> attempt + 1, notified |-> 0]
        ELSE IF attempt < max_retries
        THEN RetryLoop(attempt + 1, max_retries, exceptions, on_final_failure,
                       outcomes, value)
        ELSE [err |-> outcome, ret |-> None, calls |-> attempt + 1,
              notified |-> IF on_final_failure # "none" THEN 1 ELSE 0]

\* mutant: after the callback the wrapper returns None instead of raising
WithRetrySwallows(max_retries, exceptions, on_final_failure, outcomes, value) ==
    LET r == RetryLoop(0, max_retries, exceptions, on_final_failure, outcomes, value)
    IN  IF r.notified = 1 THEN [r EXCEPT !.err = ""] ELSE r

with_retry(max_retries, exceptions, on_final_failure, outcomes, value) ==
    RetryLoop(0, max_retries, exceptions, on_final_failure, outcomes, value)

\* the first `failures` calls raise, the next one returns
FailingFirst(failures, n) == [k \in 1..n |-> IF k <= failures THEN "Exception" ELSE "ok"]

\* _invoke_bedrock is itself wrapped: @with_retry(max_retries=3) around the
\* converse call, of which the first `failures` raise
_invoke_bedrock(failures, response) ==
    with_retry(3, {"Exception"}, "none", FailingFirst(failures, 4), response)

\* a second with_retry(max_retries=3) around _invoke_bedrock, with the error
\* handler as callback; the k-th call of _invoke_bedrock meets the converse
\* failures the calls before it have left.  calls is the number of converse
\* calls made.
_invoke_bedrock_with_retry(env) ==
    LET Left(k) == IF env.failures > 4 * (k - 1) THEN env.failures - 4 * (k - 1) ELSE 0
        invoke(k) == _invoke_bedrock(Left(k), env.response)
        outcomes == [k \in 1..4 |-> IF invoke(k).err = "" THEN "ok" ELSE invoke(k).err]
        outer == with_retry(3, {"Exception"}, "returns", outcomes, env.response)
        RECURSIVE Converse(_)
        Converse(k) == IF k = 0 THEN 0 ELSE Converse(k - 1) + invoke(k).calls
    IN  [err |-> outer.err, ret |-> outer.ret, calls |-> Converse(outer.calls)]

\* the json.loads results of the memories found, [] without a client or when
\* the search raises
_search_modification_patterns_from_ltm(env) ==
    IF env.ltm.status # "ok" THEN <<>> ELSE env.ltm.patterns

\* str.split() as a set: the maximal runs without white space
Words(s) ==
    LET starts == {i \in 1..Len(s) : ~IsSpace(s[i]) /\ (i = 1 \/ IsSpace(s[i - 1]))}
        EndOf(i) == Least({j \in i..Len(s) : j = Len(s) \/ IsSpace(s[j + 1])})
    IN  {SubSeq(s, i, EndOf(i)) : i \in starts}

\* a in b for strings
IsSubstring(a, b) ==
    \E i \in 0..(Len(b) - Len(a)) : SubSeq(b, i + 1, i + Len(a)) = a

_is_similar_title(title1, title2) ==
    IF title1 = <<>> \/ title2 = <<>> THEN FALSE
    ELSE LET title1_lower == Lower(title1)
             title2_lower == Lower(title2)
         IN  IF title1_lower = title2_lower THEN TRUE
             ELSE IF IsSubstring(title1_lower, title2_lower)
                     \/ IsSubstring(title2_lower, title1_lower) THEN TRUE
             ELSE LET words1 == Words(title1_lower)
                      words2 == Words(title2_lower)
                  IN  IF words1 = {} \/ words2 = {} THEN FALSE
                      ELSE 10 * Cardinality(words1 \cap words2)
                              >= 7 * Cardinality(words1 \cup words2)

\* the inner loop over the patterns, for one task; pattern.get raises
\* AttributeError when the decoded pattern is no dict
RECURSIVE ApplyPatterns(_, _)
ApplyPatterns(modified_task, patterns) ==
    IF patterns = <<>> THEN Ok(modified_task)
    ELSE LET pattern == Head(patterns)
         IN  IF ~pattern.is_dict THEN Err("AttributeError")
             ELSE IF ~_is_similar_title(modified_task.title, pattern.original_title)
             THEN ApplyPatterns(modified_task, Tail(patterns))
             ELSE IF pattern.modification_type = "priority_change"
             THEN ApplyPatterns(
                     [modified_task EXCEPT !.priority =
                         IF pattern.priority = "high" THEN "high"
                         ELSE IF pattern.priority = "low" THEN "low"
                         ELSE "medium"],
                     Tail(patterns))
             ELSE IF pattern.modification_type = "assignee_change"
                     /\ Truthy(pattern.assignee)
             THEN ApplyPatterns([modified_task EXCEPT !.assignee = pattern.assignee],
                                Tail(patterns))
             ELSE ApplyPatterns(modified_task, Tail(patterns))

RECURSIVE ApplyToTasks(_, _, _)
ApplyToTasks(tasks, patterns, applied_tasks) ==
    IF tasks = <<>> THEN Ok(applied_tasks)
    ELSE LET modified_task == ApplyPatterns(Head(tasks), patterns)
         IN  IF modified_task.err # "" THEN modified_task
             ELSE ApplyToTasks(Tail(tasks), patterns,
                               Append(applied_tasks, Get(modified_task.ret)))

_apply_modification_patterns(tasks, patterns) ==
    IF patterns = <<>> THEN Ok(tasks) ELSE ApplyToTasks(tasks, patterns, <<>>)

\* one decoded task object of the answer -> Optional[Task]; None when the
\* loop of _parse_response skips it (a required key is missing, or the Task
\* constructor rejects a field)
ParseTaskData(task_data, id) ==
    IF ~task_data.complete THEN None
    ELSE LET title == SubSeq(task_data.title, 1,
                             IF Len(task_data.title) < 100 THEN Len(task_data.title) ELSE 100)
             due_date_str == task_data.due_date
             due_date == IF IsSome(due_date_str) /\ Get(due_date_str) # "null"
                         THEN fromisoformat(Get(due_date_str)) ELSE None
             priority_str == LowerToken(task_data.priority)
             priority == IF priority_str = "high" THEN "high"
                         ELSE IF priority_str = "low" THEN "low" ELSE "medium"
         IN  IF title = <<>> \/ task_data.description = <<>> \/ task_data.source_quote = <<>>
             THEN None
             ELSE Some(Task(id, title, task_data.description, task_data.assignee,
                            due_date, priority, task_data.source_quote))

RECURSIVE ParseTaskDataList(_, _)
ParseTaskDataList(task_data_list, tasks) ==
    IF task_data_list = <<>> THEN tasks
    ELSE LET task == ParseTaskData(Head(task_data_list), Len(tasks) + 1)
         IN  ParseTaskDataList(Tail(task_data_list),
                               IF IsSome(task) THEN Append(tasks, Get(task)) ELSE tasks)

\* an answer that is no JSON, or no JSON list, gives no tasks
_parse_response(response) ==
    IF response.kind # "list" THEN <<>> ELSE ParseTaskDataList(response.items, <<>>)

EmptyTaskList(session_id, minutes_id) ==
    TaskList(session_id, minutes_id, <<>>, "pending", now, now)

\* mutant: the length of the input is taken before trimming
IsTooShortUntrimmed(minutes_text) == minutes_text = <<>> \/ Len(minutes_text) < 10

\* not minutes_text or len(minutes_text.strip()) < 10
IsTooShort(minutes_text) == minutes_text = <<>> \/ Len(Strip(minutes_text)) < 10

\* the call: stage is where it ended, invoked the number of model calls
extract_tasks(minutes_text, session_id, minutes_id, memory_id, env) ==
    IF IsTooShort(minutes_text)
    THEN [stage |-> "input", invoked |-> 0,
          out |-> Ok(EmptyTaskList(session_id, minutes_id))]
    ELSE LET modification_patterns ==
                 IF Truthy(memory_id) THEN _search_modification_patterns_from_ltm(env)
                 ELSE <<>>
             response_text == _invoke_bedrock_with_retry(env)
         IN  IF response_text.err # ""
             THEN [stage |-> "invoke", invoked |-> response_text.calls,
                   out |-> Ok(EmptyTaskList(session_id, minutes_id))]
             ELSE LET parsed == _parse_response(Get(response_text.ret))
                      patterned == IF modification_patterns # <<>>
                                   THEN _apply_modification_patterns(parsed,
                                                                     modification_patterns)
                                   ELSE Ok(parsed)
                  IN  IF patterned.err # ""
                      THEN [stage |-> "patterns", invoked |-> response_text.calls,
                            out |-> Ok(EmptyTaskList(session_id, minutes_id))]
                      ELSE LET deduplicated_tasks == merge_duplicates(Get(patterned.ret))
                               task_list == TaskList(session_id, minutes_id,
                                                     deduplicated_tasks, "pending", now, now)
                           IN  [stage |-> "done", invoked |-> response_text.calls,
                                out |-> validate_and_filter(task_list)]

-----------------------------------------------------------------------------
(* Extraction driver *)

MaxAnswer == 2
MaxPatterns == 1

\* empty, blank, nine characters between spaces, ten characters
MinutesTexts ==
    { <<>>, <<" ", " ">>, <<" ">> \o Repeat("m", 9) \o <<" ">>, Repeat("m", 10) }

MemoryIds == {None, Some(<<"M">>)}

TaskData(complete, title, description, priority, assignee, due_date) ==
    [complete |-> complete, title |-> title, description |-> description,
     priority |-> priority, source_quote |-> <<"q">>, assignee |-> assignee,
     due_date |-> due_date]

\* a task, its duplicate, a blank title, an object without its required
\* keys, an empty description
TaskDataSet ==
    { TaskData(TRUE, <<"a", "a", "a", "a", "a">>, <<"d">>, "HIGH", None, Some("2025-01-01")),
      TaskData(TRUE, <<" ", "A", "a", "a", "a", "a">>, <<"d", "d">>, "low",
               Some(<<"D">>), None),
      TaskData(TRUE, <<" ", " ">>, <<"d">>, "urgent", None, None),
      TaskData(FALSE, <<>>, <<>>, "low", None, None),
      TaskData(TRUE, <<"b">>, <<>>, "low", None, Some("null")) }

\* a title of 101 characters with an unknown priority and an impossible date
LongTaskData ==
    TaskData(TRUE, Repeat("a", 101), <<"d">>, "urgent", None, Some("2025-02-30"))

SeqsUpTo(S, n) == UNION {[1..k -> S] : k \in 0..n}

\* what the model's answer decodes to; the long title comes alone
Responses ==
    {[kind |-> "text", items |-> <<>>], [kind |-> "list", items |-> <<LongTaskData>>]}
        \cup {[kind |-> "list", items |-> items] : items \in SeqsUpTo(TaskDataSet, MaxAnswer)}

Pattern(is_dict, modification_type, original_title, priority, assignee) ==
    [is_dict |-> is_dict, modification_type |-> modification_type,
     original_title |-> original_title, priority |-> priority, assignee |-> assignee]

PatternSet ==
    { Pattern(TRUE, "priority_change", <<"a", "a", "a", "a", "a">>, "low", None),
      Pattern(TRUE, "assignee_change", <<"A", "a", "a", "a", "a", " ", "b">>, "",
              Some(<<"E">>)),
      Pattern(FALSE, "", <<>>, "", None) }

LtmOutcomes ==
    {[status |-> st, patterns |-> <<>>] : st \in {"no_client", "raises"}}
        \cup {[status |-> "ok", patterns |-> ps] : ps \in SeqsUpTo(PatternSet, MaxPatterns)}

\* the converse calls that raise before one returns: none, as many as one
\* call of _invoke_bedrock makes, as many as all of them make
Failures == {0, 4, 16}

ExtractTasks(minutes_text, session_id, minutes_id, memory_id, env) ==
    /\ extraction = None
    /\ LET call == extract_tasks(minutes_text, session_id, minutes_id, memory_id, env)
       IN  extraction' = Some([minutes_text |-> minutes_text, session_id |-> session_id,
                               minutes_id |-> minutes_id, memory_id |-> memory_id,
                               env |-> env, stage |-> call.stage,
                               invoked |-> call.invoked, out |-> call.out])
    /\ UNCHANGED retried
    /\ UNCHANGED outside_extract

\* one answer and one memory outcome for the texts the input check decides on
PlainEnv(failures) ==
    [failures |-> failures,
     response |-> [kind |-> "list",
                   items |-> <<TaskData(TRUE, <<"a", "a", "a", "a", "a">>, <<"d">>,
                                        "HIGH", None, None)>>],
     ltm |-> [status |-> "raises", patterns |-> <<>>]]

\* every text and every number of failing calls with one answer; the text
\* that is long enough with every answer and every memory outcome, behind
\* as many failing calls as the retries still absorb
NextExtract ==
    \/ \E minutes_text \in MinutesTexts, session_id \in Sessions, memory_id \in MemoryIds,
          failures \in Failures :
           ExtractTasks(minutes_text, session_id, "minutes-1", memory_id,
                        PlainEnv(failures))
    \/ \E session_id \in Sessions, memory_id \in MemoryIds,
          failures \in {0, 4}, response \in Responses, ltm \in LtmOutcomes :
           ExtractTasks(Repeat("m", 10), session_id, "minutes-1", memory_id,
                        [failures |-> failures, response |-> response, ltm |-> ltm])

SpecExtract == Init /\ [][NextExtract]_vars

IsEmptyPending(task_list, session_id, minutes_id) ==
    /\ task_list.session_id = session_id
    /\ task_list.minutes_id = minutes_id
    /\ task_list.tasks = <<>>
    /\ task_list.status = "pending"

ExtractedTasksPassValidation ==
    IsSome(extraction) =>
        \A i \in 1..Len(Get(Get(extraction).out.ret).tasks) :
            validate_task(Get(Get(extraction).out.ret).tasks[i]) = ""

\* C18: validation is the last gate before a batch is shown to an approver:
\* every batch that add_task or delete_task returns holds only tasks
\* that pass validate_task, as the batch extract_tasks returns does.
C18_EditedBatchPassesValidation ==
    (last.op \in {"add_task", "delete_task"} /\ last.err = "") =>
        \A i \in 1..Len(Get(last.ret).tasks) :
            validate_task(Get(last.ret).tasks[i]) = ""

-----------------------------------------------------------------------------
(* The pending records in the two stores *)

\* the session a stored body belongs to, and the table that refers to it
BlobSession(k) == model_validate_json(memory[k]).session_id
BlobIsMinutes(k) == "minutes_json" \in DOMAIN model_validate_json(memory[k])

RowRefersTo(row, s, k) == IsSome(row) /\ Get(row).session_id = s /\ Get(row).memory_blob_id = k

\* C23: the body of a record and its approval metadata are paired under the
\* session key whatever the save did: every stored body has the metadata row
\* of its session referring to it, and every metadata row refers to a stored
\* body of its session.
C23_BodyAndMetadataPaired ==
    /\ \A k \in 1..Len(memory) :
          IF BlobIsMinutes(k) THEN RowRefersTo(mtable[BlobSession(k)], BlobSession(k), k)
          ELSE RowRefersTo(table[BlobSession(k)], BlobSession(k), k)
    /\ \A s \in Sessions :
          /\ IsSome(table[s]) =>
                /\ Get(table[s]).memory_blob_id \in 1..Len(memory)
                /\ BlobSession(Get(table[s]).memory_blob_id) = s
          /\ IsSome(mtable[s]) =>
                /\ Get(mtable[s]).memory_blob_id \in 1..Len(memory)
                /\ BlobSession(Get(mtable[s]).memory_blob_id) = s

\* C25: expires_at of a metadata record is 24 hours after its created_at and
\* stays where the first save put it: a later save of the same session's
\* record does not move it.
C25_ExpiryFixedAtCreation ==
    [][\A s \in Sessions :
          /\ IsSome(table'[s]) =>
                Get(table'[s]).expires_at = Get(table'[s]).created_at + 24
          /\ IsSome(mtable'[s]) =>
                Get(mtable'[s]).expires_at = Get(mtable'[s]).created_at + 24
          /\ (IsSome(table[s]) /\ IsSome(table'[s])) =>
                Get(table'[s]).expires_at = Get(table[s]).expires_at
          /\ (IsSome(mtable[s]) /\ IsSome(mtable'[s])) =>
                Get(mtable'[s]).expires_at = Get(mtable[s]).expires_at]_vars

-----------------------------------------------------------------------------
(* The task store on its own: any record is saved under any session *)

\* the records a caller saves under session s
StoreRecords(s) ==
    {TaskList(s, "minutes-1", FreshTasks(n, title, d), status, now, now) :
        status \in {"pending", "approved"}, n \in {0, 1},
        title \in LifecycleTitles, d \in LifecycleDetails}

\* what get_pending_tasks returns or raises when none of its calls fails
LoadTasks(s) ==
    IF table[s] = None THEN Err("KeyError")
    ELSE Ok(model_validate_json(memory[Get(table[s]).memory_blob_id]))

NextTaskStore ==
    \/ \E s \in Sessions, fail \in {"none", "blob", "put"} :
          \E task_list \in StoreRecords(s) : SavePendingTasks(s, task_list, fail)
    \/ \E s \in Sessions, fail \in {"none", "get"} : GetPendingTasks(s, fail)

SpecTaskStore == Init /\ [][NextTaskStore]_vars

-----------------------------------------------------------------------------
(* delete_task with a task id the batch does not hold *)

IdAbsent(task_list, task_id) ==
    \A k \in 1..Len(task_list.tasks) : task_list.tasks[k].id # task_id

\* C26: delete_task with a task id that is not in the batch raises an error,
\* returns no batch, leaves the input batch as it was and records no
\* conversation event.
C26_DeleteAbsentTaskHasNoEffect ==
    [][\A s \in Reviewed, id \in 1..MaxIds, u \in UserIds :
          (DeleteTask(s, id, u) /\ IdAbsent(Get(batch[s]), id)) =>
              /\ last'.op = "delete_task"
              /\ last'.err # ""
              /\ last'.ret = None
              /\ batch' = batch
              /\ stm' = stm]_vars

C26_Witness ==
    /\ IsSome(batch["s1"])
    /\ Len(Get(batch["s1"]).tasks) = MaxBatch
    /\ stm = <<>>
    /\ last = Raised("delete_task", "s1", "ValueError")

-----------------------------------------------------------------------------
(* The conversation log under every operation of the review *)

NextLog ==
    \/ \E s \in Reviewed, status \in {"pending", "approved"}, n \in 0..MaxBatch,
          title \in LifecycleTitles, d \in LifecycleDetails :
          NewTaskList(s, status, n, title, d)
    \/ \E a \in ActionIds, s \in Sessions, u \in UserIds : HandleActionTasks(a, s, u)
    \/ \E s \in Reviewed, id \in 1..MaxIds, u \in UserIds : DeleteTask(s, id, u)
    \/ \E s \in Reviewed, title \in LifecycleTitles, d \in LifecycleDetails, u \in UserIds :
          AddTask(s, title, d, u)
    \/ \E s \in Sessions : HandleRevisionSubmission(s, <<"U">>)

SpecLog == Init /\ [][NextLog]_vars

\* the step appends one event of the session and the actor, and nothing else
LoggedOnce(s, actor_id) ==
    /\ Len(stm') = Len(stm) + 1
    /\ SubSeq(stm', 1, Len(stm)) = stm
    /\ stm'[Len(stm')].session_id = s
    /\ stm'[Len(stm')].actor_id = actor_id
    /\ stm'[Len(stm')].role = "user"

\* one event when a user id is given and the log takes the write, else none
LogStep(s, user_id) ==
    IF Truthy(user_id) THEN stm' = stm \/ LoggedOnce(s, Get(user_id)) ELSE stm' = stm

-----------------------------------------------------------------------------
(* Identity of the merged task *)

\* C28: the merged task of a group has the id and the title of the group's
\* kept (first) task.
C28_MergedKeepsPrimaryIdentity ==
    phase = "merged" =>
        \A i \in Survivors :
            /\ result[RankOf(i)].id = raw_tasks[i].id
            /\ result[RankOf(i)].title = raw_tasks[i].title

-----------------------------------------------------------------------------
(* The number of model calls of one extract_tasks call *)

\* C30: one extract_tasks call invokes the Bedrock converse API at most 4
\* times (one call and at most 3 retries).
C30_AtMostFourInvocations ==
    IsSome(extraction) => Get(extraction).invoked <= 4

-----------------------------------------------------------------------------
(* with_retry on its own: a function wrapped with any max_retries, retrying
   two exception types, with and without a callback *)

MaxRetries == 2

\* exceptions=(ValueError, TypeError)
RetriedExceptions == {"ValueError", "TypeError"}

\* what one call of the wrapped function does
AttemptOutcomes == {"ok", "KeyError"} \cup RetriedExceptions

CallWithRetry(max_retries, on_final_failure, outcomes) ==
    /\ retried = None
    /\ retried' = Some([max_retries |-> max_retries,
                        on_final_failure |-> on_final_failure,
                        outcomes |-> outcomes,
                        out |-> with_retry(max_retries, RetriedExceptions,
                                           on_final_failure, outcomes, "value")])
    /\ UNCHANGED extraction
    /\ UNCHANGED outside_extract

NextRetry ==
    \E max_retries \in 0..MaxRetries, on_final_failure \in {"none", "returns", "raises"} :
        \E outcomes \in [1..(max_retries + 1) -> AttemptOutcomes] :
            CallWithRetry(max_retries, on_final_failure, outcomes)

SpecRetry == Init /\ [][NextRetry]_vars

\* the function was called max_retries + 1 times and every call raised
AllAttemptsRaised(x) == x.out.calls = x.max_retries + 1 /\ x.out.err # ""

\* the call returned what the first successful attempt returned, after
\* attempts that all raised; a failed call raises what its last attempt raised
RetryOutcome(x) ==
    /\ x.out.calls \in 1..(x.max_retries + 1)
    /\ \A k \in 1..(x.out.calls - 1) : x.outcomes[k] # "ok"
    /\ x.out.err = "" => x.outcomes[x.out.calls] = "ok" /\ x.out.ret = Some("value")
    /\ x.out.err # "" => x.out.err = x.outcomes[x.out.calls] /\ x.out.ret = None
    /\ x.out.notified \in {0, 1}
    /\ x.out.err = "" => x.out.notified = 0

\* C29 as stated: at most max_retries + 1 calls, stopping at the first
\* success; the callback is invoked once exactly when all max_retries + 1
\* attempts raise, never after a success; after the final failure the last
\* exception is raised again, also when the callback raises.
C29_CallbackIffAllAttemptsRaise ==
    IsSome(retried) =>
        LET x == Get(retried)
        IN  /\ RetryOutcome(x)
            /\ x.on_final_failure # "none" =>
                  (x.out.notified = 1 <=> AllAttemptsRaised(x))

\* C29, amended: the callback is invoked once exactly when all
\* max_retries + 1 attempts raise an exception of the retried types; an
\* exception of another type leaves the wrapper at once, without retry and
\* without the callback.
C29_CallbackIffRetriesExhausted ==
    IsSome(retried) =>
        LET x == Get(retried)
        IN  /\ RetryOutcome(x)
            /\ x.on_final_failure # "none" =>
                  (x.out.notified = 1 <=>
                      (AllAttemptsRaised(x) /\ x.out.err \in RetriedExceptions))
            /\ x.on_final_failure = "none" => x.out.notified = 0
            /\ \A k \in 1..(x.out.calls - 1) : x.outcomes[k] \in RetriedExceptions

\* three attempts raise retried exceptions, the callback raises as well
C29_Witness ==
    /\ IsSome(retried)
    /\ Get(retried).max_retries = 2
    /\ Get(retried).on_final_failure = "raises"
    /\ Get(retried).outcomes = <<"ValueError", "ValueError", "TypeError">>
    /\ Get(retried).out.calls = 3
    /\ Get(retried).out.notified = 1
    /\ Get(retried).out.err = "TypeError"

=============================================================================
